---- MODULE Spec2Model ----
(***************************************************************************)
(* InTheGrid: the event-driven spread-calculation pipeline.                *)
(*                                                                         *)
(*   src/src/calculator.py  TRANSMISSION_COSTS, get_transmission_cost,     *)
(*                          calculate_spreads, write_spreads_to_db,        *)
(*                          calculate_and_store_spreads_from_redis,        *)
(*                          calculator_loop                                *)
(*                                                                         *)
(* Money is counted in cents (Decimal("2.50") is 250): every Decimal the   *)
(* program handles here has two decimal places, and Decimal subtraction    *)
(* and comparison are exact on them.  A Python dict is a sequence of       *)
(* <<key, value>> pairs with distinct keys, in insertion order.            *)
(***************************************************************************)
EXTENDS Integers, Sequences, FiniteSets, TLC

VARIABLES
    stream,         \* the Redis stream 'prices': entry i has id i
    groupExists,    \* the consumer group 'calculator_group' exists
    lastDelivered,  \* the group's last-delivered id
    pending,        \* the group's pending entries list (delivered, not acked)
    spreads,        \* the spreads table: rows in insertion order
    pricesTable,    \* the prices table: rows in insertion order
    pc,             \* where the calculator process is
    cur,            \* message_id of the message being handled (0: none)
    batch,          \* ids the last read returned that are still to be handled
    opps,           \* opportunities computed for the current message
    written,        \* how many of opps write_spreads_to_db has inserted
    dbOpen,         \* db_conn was acquired and close() has not been called
    redisOpen,      \* redis_conn was acquired and aclose() has not been called
    acked,          \* history: ids xack was called for
    crashedOn,      \* history: ids the process was killed, interrupted or hit
                    \* a Store or Stream error on, between receipt and xack
    crashedAtAck,   \* history: ids whose rows were all written when it crashed
    parseFailedOn,  \* history: ids whose parse raised
    runs,           \* history: how many times the process was started
    failures,       \* history: kills, interrupts, Store and Stream errors
    backlog,        \* history: stream length when the group was created
    lastExit,       \* history: how the process last went down
    consumers,      \* several processes on one group: where each one is, and
                    \* the message it is handling
    owner,          \* the consumer name each pending entry was delivered to
    readBy,         \* history: which process read which entry, under what name
    emptyReads,     \* history: reads that returned without a message
    costTable,      \* the module-level dict TRANSMISSION_COSTS as it is now
    call,           \* a call of a function on its own: name and arguments
    ret,            \* that call's return value, once it has returned
    ingest          \* the ingestion process: where it is, its timestamp and
                    \* prices, the markets written, its clock

vars == <<stream, groupExists, lastDelivered, pending, spreads, pc, cur,
          batch, opps, written, dbOpen, redisOpen, acked, crashedOn,
          crashedAtAck, parseFailedOn, runs, failures, backlog, lastExit,
          call, ret,
          consumers, owner, readBy, costTable, emptyReads, pricesTable, ingest>>

pipelineVars == <<stream, groupExists, lastDelivered, pending, spreads, pc,
                  cur, batch, opps, written, dbOpen, redisOpen, acked,
                  crashedOn, crashedAtAck, parseFailedOn, runs, failures,
                  backlog, lastExit,
                  consumers, owner, readBy, emptyReads,
                  pricesTable, ingest>>

(***************************************************************************)
(* Bounds of the model.                                                    *)
(***************************************************************************)
MaxStream == 2
MaxFailures == 2

(***************************************************************************)
(* Python dicts.                                                           *)
(***************************************************************************)
Keys(d) == [i \in 1..Len(d) |-> d[i][1]]

KeySet(d) == {d[i][1] : i \in 1..Len(d)}

Item(d, k) == d[CHOOSE i \in 1..Len(d) : d[i][1] = k][2]

DictGet(d, k, default) == IF k \in KeySet(d) THEN Item(d, k) ELSE default

(***************************************************************************)
(* The transmission cost table, in cents.                                  *)
(***************************************************************************)
TRANSMISSION_COSTS ==
    << <<"DE-FR", 250>>, <<"DE-NL", 150>>, <<"DE-DK", 300>>, <<"DE-BE", 200>>,
       <<"FR-NL", 200>>, <<"FR-BE", 150>>, <<"FR-DK", 400>>, <<"NL-BE", 100>>,
       <<"NL-DK", 350>>, <<"BE-DK", 350>>, <<"TEST_DE-TEST_FR", 250>> >>

\* The lookup without the reverse orientation
CostOneWay(market1, market2) ==
    DictGet(costTable, market1 \o "-" \o market2, 0)

get_transmission_cost(market1, market2) ==
    LET pair         == market1 \o "-" \o market2
        reverse_pair == market2 \o "-" \o market1
    IN  DictGet(costTable, pair, DictGet(costTable, reverse_pair, 0))

\* dict.setdefault(key, default): a missing key is stored with the default
TableAfterSetDefault(table, key) ==
    IF key \in KeySet(table) THEN table ELSE Append(table, <<key, 0>>)

\* dict.get(key, default) leaves the dict as it is
TableAfterGet(table, key) == table

\* The table after one get_transmission_cost(market1, market2): the inner
\* .get(reverse_pair, ...) is evaluated first, then the outer .get(pair, ...)
CostsAfterLookup(table, market1, market2) ==
    TableAfterGet(TableAfterGet(table, market2 \o "-" \o market1),
                  market1 \o "-" \o market2)

(***************************************************************************)
(* calculate_spreads.                                                      *)
(***************************************************************************)
\* The first timestamp, whichever is later
MaxTakesFirst(a, b) == a

Max(a, b) == IF a >= b THEN a ELSE b

\* itertools.combinations(markets, 2): the pairs <<markets[i], markets[j]>>,
\* i < j, in lexicographic order of (i, j).
RECURSIVE CombinationsFrom(_, _)
CombinationsFrom(markets, i) ==
    IF i >= Len(markets) THEN <<>>
    ELSE [j \in 1..(Len(markets) - i) |-> <<markets[i], markets[i + j]>>]
         \o CombinationsFrom(markets, i + 1)

\* itertools.permutations(markets, 2): every ordered pair of distinct places
permutations2(markets) ==
    LET n == Len(markets)
        places == SelectSeq([k \in 1..(n * n) |-> <<((k - 1) \div n) + 1,
                                                    ((k - 1) % n) + 1>>],
                            LAMBDA ij : ij[1] # ij[2])
    IN  [k \in 1..Len(places) |-> <<markets[places[k][1]], markets[places[k][2]]>>]

combinations2(markets) == CombinationsFrom(markets, 1)

\* The loop body with the transmission cost left out of net_opportunity
SpreadOfNoCost(prices, market1, market2) ==
    LET price1     == Item(prices, market1)[1]
        timestamp1 == Item(prices, market1)[2]
        price2     == Item(prices, market2)[1]
        timestamp2 == Item(prices, market2)[2]
        firstHigh  == price1 > price2
    IN  [market_pair     |-> IF firstHigh THEN market2 \o "-" \o market1
                             ELSE market1 \o "-" \o market2,
         timestamp       |-> Max(timestamp1, timestamp2),
         spread          |-> IF firstHigh THEN price1 - price2
                             ELSE price2 - price1,
         net_opportunity |-> IF firstHigh THEN price1 - price2
                             ELSE price2 - price1,
         low_market      |-> IF firstHigh THEN market2 ELSE market1,
         high_market     |-> IF firstHigh THEN market1 ELSE market2,
         low_price       |-> IF firstHigh THEN price2 ELSE price1,
         high_price      |-> IF firstHigh THEN price1 ELSE price2]

\* The loop body naming the pair by key order, not by price order
SpreadOfKeyOrderName(prices, market1, market2) ==
    [SpreadOfNoCost(prices, market1, market2) EXCEPT
        !.market_pair = market1 \o "-" \o market2,
        !.net_opportunity = @ - get_transmission_cost(market1, market2)]

\* The body of the loop up to the filter: the Spread the pair would give.
SpreadOf(prices, market1, market2) ==
    LET price1     == Item(prices, market1)[1]
        timestamp1 == Item(prices, market1)[2]
        price2     == Item(prices, market2)[1]
        timestamp2 == Item(prices, market2)[2]
        firstHigh  == price1 > price2
        high_market == IF firstHigh THEN market1 ELSE market2
        high_price  == IF firstHigh THEN price1 ELSE price2
        low_market  == IF firstHigh THEN market2 ELSE market1
        low_price   == IF firstHigh THEN price2 ELSE price1
        spread      == high_price - low_price
        transmission_cost == get_transmission_cost(market1, market2)
    IN  [market_pair     |-> low_market \o "-" \o high_market,
         timestamp       |-> Max(timestamp1, timestamp2),
         spread          |-> spread,
         net_opportunity |-> spread - transmission_cost,
         low_market      |-> low_market,
         high_market     |-> high_market,
         low_price       |-> low_price,
         high_price      |-> high_price]

\* The filter with >= in place of >
IsOpportunityLax(s) == s.net_opportunity >= 0

\* The filter applied to the price spread instead of the net opportunity
IsOpportunityBySpread(s) == s.spread > 0

\* A filter that wants more than a cent of net opportunity
IsOpportunityAboveCent(s) == s.net_opportunity > 1

\* "Only create spread if there's a positive opportunity"
IsOpportunity(s) == s.net_opportunity > 0

RECURSIVE SpreadsLoop(_, _, _)
SpreadsLoop(prices, pairs, opportunities) ==
    IF pairs = <<>> THEN opportunities
    ELSE LET s == SpreadOf(prices, Head(pairs)[1], Head(pairs)[2])
         IN  SpreadsLoop(prices, Tail(pairs),
                         IF IsOpportunity(s) THEN Append(opportunities, s)
                         ELSE opportunities)

calculate_spreads(prices) == SpreadsLoop(prices, combinations2(Keys(prices)), <<>>)

RECURSIVE CostsAfterPairs(_, _)
\* The table after the lookups of calculate_spreads: one per pair, asked as
\* get_transmission_cost(market1, market2)
CostsAfterPairs(table, pairs) ==
    IF pairs = <<>> THEN table
    ELSE CostsAfterPairs(CostsAfterLookup(table, Head(pairs)[1], Head(pairs)[2]),
                         Tail(pairs))

CostsAfterSpreads(table, prices) ==
    CostsAfterPairs(table, combinations2(Keys(prices)))

(***************************************************************************)
(* Stream messages.  A message is a dict of string fields, and a field     *)
(* value is a string.  Prices are floats with two decimal places           *)
(* (mock_data.py: round(final_price, 2)), counted in cents; instants are   *)
(* whole seconds of the first hour of 2024-01-01.                          *)
(***************************************************************************)
Digits == "0123456789"

\* s[i - 1] of Python: the i-th character
Char(s, i) == SubSeq(s, i, i)

DigitSet == {Char(Digits, d) : d \in 1..Len(Digits)}

\* int(c) of a digit
DigitValues == [c \in DigitSet |-> (CHOOSE d \in 1..Len(Digits) : Char(Digits, d) = c) - 1]

IsDigit(c) == c \in DigitSet

DigitValue(c) == DigitValues[c]

AllDigits(s) == \A i \in 1..Len(s) : IsDigit(Char(s, i))

\* The decimal digits of a natural number
RECURSIVE NatStr(_)
NatStr(n) ==
    IF n < 10 THEN Char(Digits, n + 1)
    ELSE NatStr(n \div 10) \o Char(Digits, (n % 10) + 1)

\* The natural number a string of digits denotes (0 for the empty string)
RECURSIVE NatValue(_)
NatValue(s) ==
    IF s = "" THEN 0
    ELSE NatValue(SubSeq(s, 1, Len(s) - 1)) * 10 + DigitValue(Char(s, Len(s)))

\* Two digits, as %02d
TwoDigits(n) == IF n < 10 THEN "0" \o NatStr(n) ELSE NatStr(n)

\* A text that drops the fraction of the price
StrWholeOnly(price) ==
    (IF price < 0 THEN "-" ELSE "")
        \o NatStr((IF price < 0 THEN 0 - price ELSE price) \div 100)

\* str(price) of a float: the shortest text that reads back as the float,
\* always with a fraction ("60.0", "62.5", "62.51")
str(price) ==
    LET magnitude == IF price < 0 THEN 0 - price ELSE price
        whole     == magnitude \div 100
        hundredths == magnitude % 100
    IN  (IF price < 0 THEN "-" ELSE "")
            \o NatStr(whole) \o "."
            \o NatStr(hundredths \div 10)
            \o (IF hundredths % 10 = 0 THEN "" ELSE NatStr(hundredths % 10))

\* An ISO text without the seconds
IsoformatMinutes(t) == "2024-01-01T00:" \o TwoDigits(t \div 60)

\* timestamp.isoformat(): "YYYY-MM-DDTHH:MM:SS" (no fraction: whole seconds)
isoformat(t) ==
    "2024-01-01T00:" \o TwoDigits(t \div 60) \o ":" \o TwoDigits(t % 60)

\* A text neither parser accepts
JunkStr == "abc"

\* A text without its sign
Unsigned(s) ==
    IF Len(s) > 0 /\ Head(s) \in {"-", "+"} THEN Tail(s) ELSE s

\* Where the decimal point of an unsigned text is (past its end: nowhere)
PointOf(body) ==
    IF \E i \in 1..Len(body) : Char(body, i) = "."
    THEN CHOOSE i \in 1..Len(body) : Char(body, i) = "."
    ELSE Len(body) + 1

\* Decimal(price) raises InvalidOperation unless the text is a number: an
\* optional sign, digits, at most one point, at least one digit (exponents,
\* NaN and Infinity are texts nobody writes here)
DecimalOk(s) ==
    LET body  == Unsigned(s)
        point == PointOf(body)
    IN  /\ AllDigits(SubSeq(body, 1, point - 1))
        /\ AllDigits(SubSeq(body, point + 1, Len(body)))
        /\ Len(body) > (IF point > Len(body) THEN 0 ELSE 1)

\* The value in cents: the digits before the point and the first two after
\* it (the texts of the model have no more than two)
Decimal(s) ==
    LET body  == Unsigned(s)
        point == PointOf(body)
        whole == SubSeq(body, 1, point - 1)
        cents == SubSeq(SubSeq(body, point + 1, Len(body)) \o "00", 1, 2)
        magnitude == NatValue(whole) * 100 + NatValue(cents)
    IN  IF Len(s) > 0 /\ Head(s) = "-" THEN 0 - magnitude ELSE magnitude

\* datetime.fromisoformat raises ValueError unless the text is an instant
FromIsoOk(s) ==
    /\ Len(s) = 19
    /\ SubSeq(s, 1, 14) = "2024-01-01T00:"
    /\ AllDigits(SubSeq(s, 15, 16))
    /\ Char(s, 17) = ":"
    /\ AllDigits(SubSeq(s, 18, 19))
    /\ NatValue(SubSeq(s, 15, 16)) < 60
    /\ NatValue(SubSeq(s, 18, 19)) < 60

fromisoformat(s) ==
    NatValue(SubSeq(s, 15, 16)) * 60 + NatValue(SubSeq(s, 18, 19))

\* Every field is taken for a market
IsMarketFieldAny(kv) == TRUE

\* "if market != 'timestamp'"
IsMarketField(kv) == kv[1] # "timestamp"

\* Lines 138-143 raise (KeyError, ValueError, InvalidOperation) unless:
ParseOk(prices_data) ==
    /\ "timestamp" \in KeySet(prices_data)
    /\ FromIsoOk(Item(prices_data, "timestamp"))
    /\ \A i \in 1..Len(prices_data) :
          IsMarketField(prices_data[i]) => DecimalOk(prices_data[i][2])

\* The dict comprehension of lines 139-143
ParsePrices(prices_data) ==
    LET timestamp == fromisoformat(Item(prices_data, "timestamp"))
        fields    == SelectSeq(prices_data, IsMarketField)
    IN  [i \in 1..Len(fields) |->
            <<fields[i][1], <<Decimal(fields[i][2]), timestamp>> >>]

\* What calculate_and_store_spreads_from_redis hands to write_spreads_to_db
\* ("if not prices: return" leaves nothing to write).
OppsOfPrices(prices) ==
    IF prices = <<>> THEN <<>> ELSE calculate_spreads(prices)

\* Lines 138-152 on the fields of one stream message
OppsOfData(prices_data) == OppsOfPrices(ParsePrices(prices_data))

\* The messages published in the model, stamped with instant t.
Messages(t) ==
    { << <<"timestamp", isoformat(t)>>, <<"DE", str(6000)>>,
         <<"FR", str(8000)>>, <<"NL", str(6500)>> >>,
      << <<"timestamp", isoformat(t)>>, <<"DE", str(7000)>>,
         <<"FR", str(7000)>>, <<"NL", str(7100)>> >>,
      << <<"timestamp", isoformat(t)>>, <<"DE", str(6000)>> >>,
      << <<"timestamp", isoformat(t)>> >>,
      << <<"DE", str(6000)>>, <<"FR", str(8000)>> >>,
      << <<"timestamp", JunkStr>>, <<"DE", str(6000)>>,
         <<"FR", str(8000)>> >>,
      << <<"timestamp", isoformat(t)>>, <<"DE", str(6000)>>,
         <<"FR", JunkStr>>, <<"NL", str(8000)>> >> }

(***************************************************************************)
(* The consumer group, as the calls of calculator_loop use it.             *)
(***************************************************************************)
\* id='$': the group would start after the last entry
GroupStartIdDollar == Len(stream)

\* xgroup_create(..., id='0', ...): the group starts before the first entry
GroupStartId == 0

\* Destroying and creating the group anew at every start
XGroupRecreate == [last |-> GroupStartId, pend |-> {}]

\* xgroup_create: creates the group, or raises BUSYGROUP and changes nothing
xgroup_create ==
    IF groupExists THEN [last |-> lastDelivered, pend |-> pending]
    ELSE [last |-> GroupStartId, pend |-> {}]

\* xreadgroup(streams={'prices': '>'}, count=1): the id of the first entry
\* never delivered to the group, or 0 when there is none (the call blocks).
NextDelivery == IF lastDelivered < Len(stream) THEN lastDelivered + 1 ELSE 0

\* block=5000: the read gives up after five seconds
BlockMsTimed == 5 * 1000

\* xreadgroup(..., block=0): wait without limit
BlockMs == 0

\* count=2: one more entry per read
ReadCountTwo == 1 + 1

\* xreadgroup(..., count=1, ...): at most one entry per read
ReadCount == 1

\* The ids one read returns: the next ReadCount never-delivered entries
NextBatch ==
    LET last == IF lastDelivered + ReadCount <= Len(stream)
                THEN lastDelivered + ReadCount ELSE Len(stream)
    IN  [i \in 1..(last - lastDelivered) |-> lastDelivered + i]

Range(f) == {f[i] : i \in DOMAIN f}

\* xreadgroup(noack=True) would not record the delivery
PendingAfterReadNoAck(ids) == pending

\* Delivered entries join the pending entries list
PendingAfterRead(ids) == pending \cup ids

\* An xack that names another group leaves the list as it is
PendingAfterAckElsewhere(id) == pending

\* xack('prices', 'calculator_group', message_id)
PendingAfterAck(id) == pending \ {id}

InMessage == pc \in {"handle", "write", "ack"}

(***************************************************************************)
(* Initial state: nothing published, no group, the process not started.    *)
(***************************************************************************)
NoCall == [fn |-> "none", args |-> <<>>]

NoRet == [done |-> FALSE, val |-> <<>>]

\* The calculator processes started against the one group
Procs == {"A", "B"}

\* A process that is not running
Idle == [pc |-> "down", cur |-> 0]

\* The ingestion process before ingestion_loop is run
IngestDown ==
    [pc |-> "down", timestamp |-> 0, prices |-> <<>>, written |-> 0,
     clock |-> 0, failed |-> {}]

\* The Store before anything was ingested
StoreInit ==
    /\ spreads = <<>>
    /\ pricesTable = <<>>

\* Everything but the Store's tables
LoopInit ==
    /\ stream = <<>>
    /\ groupExists = FALSE
    /\ lastDelivered = 0
    /\ pending = {}
    /\ pc = "down"
    /\ cur = 0
    /\ batch = <<>>
    /\ opps = <<>>
    /\ written = 0
    /\ dbOpen = FALSE
    /\ redisOpen = FALSE
    /\ acked = {}
    /\ crashedOn = {}
    /\ crashedAtAck = {}
    /\ parseFailedOn = {}
    /\ runs = 0
    /\ failures = 0
    /\ backlog = 0
    /\ lastExit = "none"
    /\ consumers = [p \in Procs |-> Idle]
    /\ owner = <<>>
    /\ readBy = {}
    /\ costTable = TRANSMISSION_COSTS
    /\ emptyReads = 0
    /\ ingest = IngestDown

PipelineInit == StoreInit /\ LoopInit

Init == PipelineInit /\ call = NoCall /\ ret = NoRet

(***************************************************************************)
(* Actions.                                                                *)
(***************************************************************************)
\* A finally block that closes the Store connection only
FinallyClosesStoreOnly == [db |-> FALSE, redis |-> redisOpen]

\* Lines 212-214: "await db_conn.close()", "await redis_conn.aclose()"
FinallyCloses == [db |-> FALSE, redis |-> FALSE]

\* An exception (or the interrupt) leaves the while loop of lines 192-207:
\* the finally block runs and calculator_loop ends
Exit(cause) ==
    /\ pc' = "down"
    /\ cur' = 0
    /\ batch' = <<>>
    /\ opps' = <<>>
    /\ written' = 0
    /\ dbOpen' = FinallyCloses.db
    /\ redisOpen' = FinallyCloses.redis
    /\ lastExit' = cause

\* A client of the stream adds an entry (xadd): ingestion's publish_to_redis
\* for the well-formed ones
Publish ==
    /\ Len(stream) < MaxStream
    /\ \E m \in Messages(Len(stream) + 1) : stream' = Append(stream, m)
    /\ UNCHANGED <<groupExists, lastDelivered, pending, spreads, pc, cur,
                   batch, opps, written, dbOpen, redisOpen, acked, crashedOn,
                   crashedAtAck, parseFailedOn, runs, failures, backlog,
                   lastExit, call, ret, consumers,
                   owner, readBy,
                   costTable, emptyReads,
                   pricesTable, ingest>>

\* The process starts: asyncio.run(calculator_loop()), lines 177-181
Start ==
    /\ pc = "down"
    /\ pc' = "group"
    /\ dbOpen' = TRUE
    /\ redisOpen' = TRUE
    /\ runs' = runs + 1
    /\ lastExit' = "none"
    /\ UNCHANGED <<stream, groupExists, lastDelivered, pending, spreads, cur,
                   batch, opps, written, acked, crashedOn, crashedAtAck,
                   parseFailedOn, failures, backlog, call, ret, consumers,
                   owner, readBy,
                   costTable, emptyReads,
                   pricesTable, ingest>>

\* Lines 183-189: create the group; any exception is printed and ignored
GroupCreate ==
    /\ pc = "group"
    /\ groupExists' = TRUE
    /\ lastDelivered' = xgroup_create.last
    /\ pending' = xgroup_create.pend
    /\ backlog' = IF groupExists THEN backlog ELSE Len(stream)
    /\ pc' = "read"
    /\ UNCHANGED <<stream, spreads, cur, batch, opps, written, dbOpen,
                   redisOpen, acked, crashedOn, crashedAtAck, parseFailedOn,
                   runs, failures, lastExit, call, ret, consumers,
                   owner, readBy,
                   costTable, emptyReads,
                   pricesTable, ingest>>

\* A handler for the duplicate-group error only: any other exception of
\* xgroup_create leaves calculator_loop before the try of line 191
GroupCreateFailsExits ==
    /\ pc = "group"
    /\ failures < MaxFailures
    /\ failures' = failures + 1
    /\ pc' = "down"
    /\ lastExit' = "error"
    /\ UNCHANGED <<stream, groupExists, lastDelivered, pending, spreads, cur,
                   batch, opps, written, dbOpen, redisOpen, acked, crashedOn,
                   crashedAtAck, parseFailedOn, runs, backlog, call, ret,
                   consumers, owner, readBy, costTable, emptyReads,
                   pricesTable, ingest>>

\* Lines 183-187: xgroup_create raises something else than BUSYGROUP (the
\* Stream is unavailable) and creates nothing; "except Exception" prints
\* "already exists (OK)" and the loop is entered
GroupCreateFails ==
    /\ pc = "group"
    /\ failures < MaxFailures
    /\ failures' = failures + 1
    /\ pc' = "read"
    /\ UNCHANGED <<stream, groupExists, lastDelivered, pending, spreads, cur,
                   batch, opps, written, dbOpen, redisOpen, acked, crashedOn,
                   crashedAtAck, parseFailedOn, runs, backlog, lastExit, call,
                   ret, consumers, owner, readBy, costTable, emptyReads,
                   pricesTable, ingest>>

\* Lines 193-199 without the group: Redis answers NOGROUP, xreadgroup raises
\* ResponseError and the exception leaves the loop
XReadGroupNoGroup ==
    /\ pc = "read"
    /\ ~groupExists
    /\ Exit("error")
    /\ UNCHANGED <<stream, groupExists, lastDelivered, pending, spreads,
                   acked, crashedOn, crashedAtAck, parseFailedOn, runs,
                   failures, backlog, call, ret, consumers, owner, readBy,
                   costTable, emptyReads, pricesTable, ingest>>

\* Lines 193-204: the blocking read returns the next never-delivered entries.
\* With block=0 it does not return while there is none; a timed read would
\* return nothing and the loop would read again.
XReadGroup ==
    /\ pc = "read"
    /\ groupExists
    /\ ~(NextDelivery = 0 /\ BlockMs = 0)
    /\ IF NextDelivery # 0
       THEN /\ cur' = Head(NextBatch)
            /\ batch' = Tail(NextBatch)
            /\ lastDelivered' = NextBatch[Len(NextBatch)]
            /\ pending' = PendingAfterRead(Range(NextBatch))
            /\ pc' = "handle"
            /\ emptyReads' = emptyReads
       ELSE /\ emptyReads < MaxFailures
            /\ emptyReads' = emptyReads + 1
            /\ UNCHANGED <<cur, batch, lastDelivered, pending, pc>>
    /\ UNCHANGED <<stream, groupExists, spreads, opps, written, dbOpen,
                   redisOpen, acked, crashedOn, crashedAtAck, parseFailedOn,
                   runs, failures, backlog, lastExit, call, ret, consumers,
                   owner, readBy, costTable,
                   pricesTable, ingest>>

\* A parse that goes market by market, storing as it goes: what the fields
\* that do parse give is written before the bad field raises
ParseFailsAfterWriting ==
    /\ pc = "handle"
    /\ ~ParseOk(stream[cur])
    /\ parseFailedOn' = parseFailedOn \cup {cur}
    /\ LET good  == SelectSeq(stream[cur],
                              LAMBDA kv : IF kv[1] = "timestamp"
                                          THEN FromIsoOk(kv[2])
                                          ELSE DecimalOk(kv[2]))
           found == IF "timestamp" \in KeySet(good)
                    THEN OppsOfPrices(ParsePrices(good)) ELSE <<>>
       IN  spreads' = spreads \o [i \in 1..Len(found) |->
                                     [src |-> cur, row |-> found[i]]]
    /\ Exit("error")
    /\ UNCHANGED <<stream, groupExists, lastDelivered, pending,
                   acked, crashedOn, crashedAtAck, runs, failures, backlog,
                   call, ret, consumers, owner, readBy, costTable, emptyReads,
                   pricesTable, ingest>>

\* Lines 138-143 raise: nothing in calculator_loop catches the exception
ParseFails ==
    /\ pc = "handle"
    /\ ~ParseOk(stream[cur])
    /\ parseFailedOn' = parseFailedOn \cup {cur}
    /\ Exit("error")
    /\ UNCHANGED <<stream, groupExists, lastDelivered, pending, spreads,
                   acked, crashedOn, crashedAtAck, runs, failures, backlog,
                   call, ret, consumers,
                   owner, readBy,
                   costTable, emptyReads,
                   pricesTable, ingest>>

\* An xack reached only when something was stored
AfterCalculateAckOnlyStored(opportunities) ==
    IF opportunities = <<>> THEN "read" ELSE "write"

\* "if not prices: return", "if opportunities: await write_spreads_to_db"
AfterCalculate(opportunities) ==
    IF opportunities = <<>> THEN "ack" ELSE "write"

\* Lines 138-156: parse, calculate; with nothing to write, back to the loop
Calculate ==
    /\ pc = "handle"
    /\ ParseOk(stream[cur])
    /\ \E prices \in {ParsePrices(stream[cur])} :
          \E opportunities \in {OppsOfPrices(prices)} :
              /\ opps' = opportunities
              /\ pc' = AfterCalculate(opportunities)
              /\ costTable' = CostsAfterSpreads(costTable, prices)
    /\ written' = 0
    /\ UNCHANGED <<stream, groupExists, lastDelivered, pending, spreads, cur,
                   batch, dbOpen, redisOpen, acked, crashedOn, crashedAtAck,
                   parseFailedOn, runs, failures, backlog, lastExit, call,
                   ret, consumers,
                   owner, readBy, emptyReads,
                   pricesTable, ingest>>

\* Leaving the loop after the first INSERT
AfterInsertReturnEarly(n, total) == "ack"

\* write_spreads_to_db's for loop: on to the next spread, or done
AfterInsert(n, total) == IF n = total THEN "ack" ELSE "write"

\* An INSERT that skips a row whose business fields are already stored
InsertRowIfAbsent(table, r) ==
    IF \E j \in 1..Len(table) : table[j].row = r.row THEN table
    ELSE Append(table, r)

\* An upsert keyed on market_pair: a stored row of the same pair is replaced
InsertRowUpsert(table, r) ==
    IF \E j \in 1..Len(table) : table[j].row.market_pair = r.row.market_pair
    THEN [j \in 1..Len(table) |->
             IF table[j].row.market_pair = r.row.market_pair THEN r
             ELSE table[j]]
    ELSE Append(table, r)

\* INSERT INTO spreads (...) VALUES (...)
InsertRow(table, r) == Append(table, r)

\* One iteration of write_spreads_to_db: one INSERT (src is not a column: it
\* records which message the row was derived from)
Insert ==
    /\ pc = "write"
    /\ spreads' = InsertRow(spreads, [src |-> cur, row |-> opps[written + 1]])
    /\ written' = written + 1
    /\ pc' = AfterInsert(written + 1, Len(opps))
    /\ UNCHANGED <<stream, groupExists, lastDelivered, pending, cur, batch,
                   opps, dbOpen, redisOpen, acked, crashedOn, crashedAtAck,
                   parseFailedOn, runs, failures, backlog, lastExit, call,
                   ret, consumers,
                   owner, readBy,
                   costTable, emptyReads,
                   pricesTable, ingest>>

\* The INSERTs of one message inside a transaction: the failure of one
\* takes back the rows the message has already written
InsertFailsRollsBack ==
    /\ pc = "write"
    /\ failures < MaxFailures
    /\ failures' = failures + 1
    /\ crashedOn' = crashedOn \cup {cur}
    /\ spreads' = SelectSeq(spreads, LAMBDA r : r.src # cur)
    /\ Exit("error")
    /\ UNCHANGED <<stream, groupExists, lastDelivered, pending,
                   acked, crashedAtAck, parseFailedOn, runs, backlog, call,
                   ret, consumers, owner, readBy, costTable, emptyReads,
                   pricesTable, ingest>>

\* conn.execute raises (Store unavailable): the exception leaves the loop
InsertFails ==
    /\ pc = "write"
    /\ failures < MaxFailures
    /\ failures' = failures + 1
    /\ crashedOn' = crashedOn \cup {cur}
    /\ Exit("error")
    /\ UNCHANGED <<stream, groupExists, lastDelivered, pending, spreads,
                   acked, crashedAtAck, parseFailedOn, runs, backlog, call,
                   ret, consumers,
                   owner, readBy,
                   costTable, emptyReads,
                   pricesTable, ingest>>

\* Line 207: xack; then the next message of the batch, or the next read
XAck ==
    /\ pc = "ack"
    /\ pending' = PendingAfterAck(cur)
    /\ acked' = acked \cup {cur}
    /\ pc' = IF batch = <<>> THEN "read" ELSE "handle"
    /\ cur' = IF batch = <<>> THEN 0 ELSE Head(batch)
    /\ batch' = IF batch = <<>> THEN <<>> ELSE Tail(batch)
    /\ opps' = <<>>
    /\ written' = 0
    /\ UNCHANGED <<stream, groupExists, lastDelivered, spreads, dbOpen,
                   redisOpen, crashedOn, crashedAtAck, parseFailedOn, runs,
                   failures, backlog, lastExit, call, ret, consumers,
                   owner, readBy,
                   costTable, emptyReads,
                   pricesTable, ingest>>

\* xreadgroup raises (Stream unavailable)
XReadGroupFails ==
    /\ pc = "read"
    /\ failures < MaxFailures
    /\ failures' = failures + 1
    /\ Exit("error")
    /\ UNCHANGED <<stream, groupExists, lastDelivered, pending, spreads,
                   acked, crashedOn, crashedAtAck, parseFailedOn, runs,
                   backlog, call, ret, consumers,
                   owner, readBy,
                   costTable, emptyReads,
                   pricesTable, ingest>>

\* xack raises (Stream unavailable) and the acknowledgment is not recorded
XAckFails ==
    /\ pc = "ack"
    /\ failures < MaxFailures
    /\ failures' = failures + 1
    /\ crashedOn' = crashedOn \cup {cur}
    /\ Exit("error")
    /\ UNCHANGED <<stream, groupExists, lastDelivered, pending, spreads,
                   acked, crashedAtAck, parseFailedOn, runs, backlog, call,
                   ret, consumers,
                   owner, readBy,
                   costTable, emptyReads,
                   pricesTable, ingest>>

\* A process-level interrupt while the loop awaits the read, an INSERT or
\* the xack: it unwinds through the finally block of lines 212-214
Interrupt ==
    /\ pc \in {"read", "write", "ack"}
    /\ failures < MaxFailures
    /\ failures' = failures + 1
    /\ crashedOn' = IF InMessage THEN crashedOn \cup {cur} ELSE crashedOn
    /\ Exit("interrupt")
    /\ UNCHANGED <<stream, groupExists, lastDelivered, pending, spreads,
                   acked, crashedAtAck, parseFailedOn, runs, backlog, call,
                   ret, consumers,
                   owner, readBy,
                   costTable, emptyReads,
                   pricesTable, ingest>>

\* An interrupt during xgroup_create, before the try of line 191: no finally
\* block is in force and neither connection is closed
InterruptAtStartup ==
    /\ pc = "group"
    /\ failures < MaxFailures
    /\ failures' = failures + 1
    /\ pc' = "down"
    /\ lastExit' = "startup"
    /\ UNCHANGED <<stream, groupExists, lastDelivered, pending, spreads, cur,
                   batch, opps, written, dbOpen, redisOpen, acked, crashedOn,
                   crashedAtAck, parseFailedOn, runs, backlog, call, ret, consumers,
                   owner, readBy,
                   costTable, emptyReads,
                   pricesTable, ingest>>

\* The process is killed, wherever it is: nothing of it runs any more
Crash ==
    /\ pc # "down"
    /\ failures < MaxFailures
    /\ failures' = failures + 1
    /\ crashedOn' = IF InMessage THEN crashedOn \cup {cur} ELSE crashedOn
    /\ crashedAtAck' = IF pc = "ack" /\ opps # <<>>
                       THEN crashedAtAck \cup {cur} ELSE crashedAtAck
    /\ pc' = "down"
    /\ cur' = 0
    /\ batch' = <<>>
    /\ opps' = <<>>
    /\ written' = 0
    /\ lastExit' = "killed"
    /\ UNCHANGED <<stream, groupExists, lastDelivered, pending, spreads,
                   dbOpen, redisOpen, acked, parseFailedOn, runs, backlog,
                   call, ret, consumers,
                   owner, readBy,
                   costTable, emptyReads,
                   pricesTable, ingest>>

Next ==
    \/ Publish
    \/ Start
    \/ GroupCreate
    \/ GroupCreateFails
    \/ XReadGroup
    \/ XReadGroupNoGroup
    \/ ParseFails
    \/ Calculate
    \/ Insert
    \/ InsertFails
    \/ XAck
    \/ XReadGroupFails
    \/ XAckFails
    \/ Interrupt
    \/ InterruptAtStartup
    \/ Crash

Spec == Init /\ [][Next]_vars

(***************************************************************************)
(* The pure functions, called on their own: the arguments are drawn from   *)
(* bounded sets, the action returns what the function computes.            *)
(***************************************************************************)
CallMarkets == {"DE", "FR", "NL", "AT"}

CallPrices == {6000, 6250, 6251}

CallTimestamps == {1, 2}

RECURSIVE OrdersOf(_)
\* Every insertion order of the keys ks
OrdersOf(ks) ==
    IF ks = {} THEN {<<>>}
    ELSE UNION {{Append(o, k) : o \in OrdersOf(ks \ {k})} : k \in ks}

KeyOrders == UNION {OrdersOf(ks) : ks \in SUBSET CallMarkets}

\* The dict with keys in order o and values v[i] = <<price, timestamp>>
DictOf(o, v) == [i \in 1..Len(o) |-> <<o[i], v[i]>>]

CostCodes == {"DE", "FR", "NL", "BE", "DK", "AT", "TEST_DE", "TEST_FR"}

\* How many times calculate_and_store_spreads_from_redis is called in a row
MaxCalls == 2

\* The most hours generate_prices is asked for
MaxHours == 2

\* The field names of a stream message
FieldNames == {"timestamp", "DE", "FR", "NL"}

FieldOrders == UNION {OrdersOf(ks) : ks \in SUBSET FieldNames}

\* The values a field can hold: what publish_to_redis writes, or anything else
FieldValues(name) ==
    IF name = "timestamp" THEN {isoformat(1), isoformat(2), JunkStr}
    ELSE {str(6000), str(6251), JunkStr}

CallInit ==
    /\ PipelineInit
    /\ ret = NoRet
    /\ \/ \E o \in KeyOrders :
             \E v \in [1..Len(o) -> CallPrices \X CallTimestamps] :
                call = [fn |-> "calculate_spreads", args |-> <<DictOf(o, v)>>]
       \/ \E a \in CostCodes, b \in CostCodes :
             call = [fn |-> "get_transmission_cost", args |-> <<a, b>>]
       \/ \E o \in FieldOrders :
             \E v \in [1..Len(o) -> UNION {FieldValues(n) : n \in FieldNames}] :
                /\ \A i \in 1..Len(o) : v[i] \in FieldValues(o[i])
                /\ call = [fn   |-> "calculate_and_store_spreads_from_redis",
                           args |-> <<DictOf(o, v)>>]
       \/ \E o \in KeyOrders, timestamp \in CallTimestamps :
             \E v \in [1..Len(o) -> CallPrices] :
                call = [fn   |-> "publish_to_redis",
                        args |-> <<timestamp, DictOf(o, v)>>]
       \/ \E hours \in (0 - 1)..MaxHours :
             call = [fn |-> "generate_prices", args |-> <<hours>>]

ReturnCalculateSpreads ==
    /\ call.fn = "calculate_spreads"
    /\ ~ret.done
    /\ ret' = [done |-> TRUE, val |-> calculate_spreads(call.args[1])]
    /\ costTable' = CostsAfterSpreads(costTable, call.args[1])
    /\ UNCHANGED <<call, pipelineVars>>

ReturnGetTransmissionCost ==
    /\ call.fn = "get_transmission_cost"
    /\ ~ret.done
    /\ ret' = [done |-> TRUE,
               val |-> get_transmission_cost(call.args[1], call.args[2])]
    /\ costTable' = CostsAfterLookup(costTable, call.args[1], call.args[2])
    /\ UNCHANGED <<call, pipelineVars>>

RECURSIVE write_spreads_to_db(_, _, _)
\* "for spread in spreads: await conn.execute(INSERT ...)"; n is recorded
\* with each row as the call that wrote it
write_spreads_to_db(table, opportunities, n) ==
    IF opportunities = <<>> THEN table
    ELSE write_spreads_to_db(
             InsertRow(table, [src |-> n, row |-> Head(opportunities)]),
             Tail(opportunities), n)

\* How many calls of calculate_and_store_spreads_from_redis have ended
CallsMade == IF ret.done THEN ret.val.calls ELSE 0

\* One whole call of calculate_and_store_spreads_from_redis(conn, data), the
\* Store available: it raises in the parse, or stores what it calculated
CallCalculateAndStore ==
    /\ call.fn = "calculate_and_store_spreads_from_redis"
    /\ CallsMade < MaxCalls
    /\ LET prices_data == call.args[1]
       IN  IF ParseOk(prices_data)
           THEN /\ spreads' = write_spreads_to_db(spreads,
                                   OppsOfData(prices_data), CallsMade + 1)
                /\ ret' = [done |-> TRUE,
                           val  |-> [calls  |-> CallsMade + 1,
                                     raised |-> FALSE,
                                     prices |-> ParsePrices(prices_data)]]
           ELSE /\ spreads' = spreads
                /\ ret' = [done |-> TRUE,
                           val  |-> [calls  |-> CallsMade + 1,
                                     raised |-> TRUE,
                                     prices |-> <<>>]]
    /\ costTable' = IF ParseOk(call.args[1])
                    THEN CostsAfterSpreads(costTable, ParsePrices(call.args[1]))
                    ELSE costTable
    /\ UNCHANGED <<call, stream, groupExists, lastDelivered, pending, pc, cur,
                   batch, opps, written, dbOpen, redisOpen, acked, crashedOn,
                   crashedAtAck, parseFailedOn, runs, failures, backlog,
                   lastExit, consumers,
                   owner, readBy, emptyReads,
                   pricesTable, ingest>>

\* The message without its "timestamp" field
PublishDataPricesOnly(timestamp, prices) ==
    [i \in 1..Len(prices) |-> <<prices[i][1], str(prices[i][2])>>]

\* d[k] = v of a dict literal: a key already there keeps its place
DictSet(d, k, v) ==
    IF k \in KeySet(d)
    THEN [i \in 1..Len(d) |-> IF d[i][1] = k THEN <<k, v>> ELSE d[i]]
    ELSE Append(d, <<k, v>>)

RECURSIVE DictUpdate(_, _)
\* {**d, **e}
DictUpdate(d, e) ==
    IF e = <<>> THEN d
    ELSE DictUpdate(DictSet(d, Head(e)[1], Head(e)[2]), Tail(e))

\* data = {"timestamp": timestamp.isoformat(),
\*         **{market: str(price) for market, price in prices.items()}}
PublishData(timestamp, prices) ==
    DictUpdate(<< <<"timestamp", isoformat(timestamp)>> >>,
               [i \in 1..Len(prices) |-> <<prices[i][1], str(prices[i][2])>>])

\* redis_conn.xadd("prices", data)
xadd(entries, data) == Append(entries, data)

\* One call of publish_to_redis(redis_conn, timestamp, prices)
CallPublishToRedis ==
    /\ call.fn = "publish_to_redis"
    /\ CallsMade < MaxCalls
    /\ stream' = xadd(stream, PublishData(call.args[1], call.args[2]))
    /\ ret' = [done |-> TRUE, val |-> [calls |-> CallsMade + 1]]
    /\ UNCHANGED <<call, groupExists, lastDelivered, pending, spreads, pc, cur,
                   batch, opps, written, dbOpen, redisOpen, acked, crashedOn,
                   crashedAtAck, parseFailedOn, runs, failures, backlog,
                   lastExit, consumers, owner, readBy, costTable, emptyReads,
                   pricesTable, ingest>>

\* Base prices of mock_data.py, in cents
MARKETS ==
    << <<"DE", 7500>>, <<"FR", 8500>>, <<"NL", 7300>>, <<"BE", 8000>>,
       <<"AT", 7800>> >>

\* What the random walk, the mean reversion and the time-of-day scaling add
\* to a base price in one hour: any amount; here one of two, the same for
\* every market of the hour
RandomDraws == {0 - 200, 300}

\* range(hours + 1)
RangeInclusive(hours) == [h \in 1..(hours + 1) |-> h - 1]

\* range(hours): 0, 1, ..., hours - 1; empty for hours <= 0
range(hours) == [h \in 1..hours |-> h - 1]

\* The inner loop "for market in MARKETS": a price for every market
market_prices(draw) ==
    [i \in 1..Len(MARKETS) |-> <<MARKETS[i][1], MARKETS[i][2] + draw>>]

\* generate_prices(hours), the random numbers of hour h being draws[h]
generate_prices(hours, draws) ==
    [k \in 1..Len(range(hours)) |->
        [timestamp |-> range(hours)[k], prices |-> market_prices(draws[k])]]

ReturnGeneratePrices ==
    /\ call.fn = "generate_prices"
    /\ ~ret.done
    /\ \E draws \in [1..Len(range(call.args[1])) -> RandomDraws] :
          ret' = [done |-> TRUE, val |-> generate_prices(call.args[1], draws)]
    /\ UNCHANGED <<call, pipelineVars, costTable>>

CallNext ==
    \/ ReturnCalculateSpreads
    \/ ReturnGetTransmissionCost
    \/ CallCalculateAndStore
    \/ CallPublishToRedis
    \/ ReturnGeneratePrices

CallSpec == CallInit /\ [][CallNext]_vars

(***************************************************************************)
(* The program as a whole: the consumer loop, or one of its functions      *)
(* called on its own.                                                      *)
(***************************************************************************)
ProgramInit == Init \/ CallInit

ProgramNext ==
    \/ call = NoCall /\ Next
    \/ CallNext

ProgramSpec == ProgramInit /\ [][ProgramNext]_vars

(***************************************************************************)
(* Several calculator processes run against the one consumer group.  The   *)
(* Store is available and no process is killed: each process is            *)
(* calculator_loop, the call of calculate_and_store_spreads_from_redis     *)
(* taken as one step.                                                      *)
(***************************************************************************)
\* consumername='calculator-1', whichever process it is
ConsumerName(p) == "calculator-1"

ProcStart(p) ==
    /\ consumers[p].pc = "down"
    /\ consumers' = [consumers EXCEPT ![p].pc = "group"]
    /\ UNCHANGED <<stream, groupExists, lastDelivered, pending, spreads, pc,
                   cur, batch, opps, written, dbOpen, redisOpen, acked,
                   crashedOn, crashedAtAck, parseFailedOn, runs, failures,
                   backlog, lastExit, owner, readBy, call, ret,
                   costTable, emptyReads,
                   pricesTable, ingest>>

ProcGroupCreate(p) ==
    /\ consumers[p].pc = "group"
    /\ groupExists' = TRUE
    /\ lastDelivered' = xgroup_create.last
    /\ pending' = xgroup_create.pend
    /\ backlog' = IF groupExists THEN backlog ELSE Len(stream)
    /\ consumers' = [consumers EXCEPT ![p].pc = "read"]
    /\ UNCHANGED <<stream, spreads, pc, cur, batch, opps, written, dbOpen,
                   redisOpen, acked, crashedOn, crashedAtAck, parseFailedOn,
                   runs, failures, lastExit, owner, readBy, call, ret,
                   costTable, emptyReads,
                   pricesTable, ingest>>

\* The read of process p: the entries go to the consumer name p passes
ProcRead(p) ==
    /\ consumers[p].pc = "read"
    /\ NextDelivery # 0
    /\ lastDelivered' = NextBatch[Len(NextBatch)]
    /\ pending' = PendingAfterRead(Range(NextBatch))
    /\ owner' = [id \in pending' |->
                    IF id \in Range(NextBatch) THEN ConsumerName(p)
                    ELSE owner[id]]
    /\ readBy' = readBy \cup {[id |-> id, proc |-> p, name |-> ConsumerName(p)] :
                                  id \in Range(NextBatch)}
    /\ consumers' = [consumers EXCEPT ![p] = [pc  |-> "handle",
                                              cur |-> Head(NextBatch)]]
    /\ UNCHANGED <<stream, groupExists, spreads, pc, cur, batch, opps,
                   written, dbOpen, redisOpen, acked, crashedOn,
                   crashedAtAck, parseFailedOn, runs, failures, backlog,
                   lastExit, call, ret,
                   costTable, emptyReads,
                   pricesTable, ingest>>

ProcHandle(p) ==
    /\ consumers[p].pc = "handle"
    /\ ParseOk(stream[consumers[p].cur])
    /\ spreads' = write_spreads_to_db(spreads,
                       OppsOfData(stream[consumers[p].cur]), consumers[p].cur)
    /\ consumers' = [consumers EXCEPT ![p].pc = "ack"]
    /\ costTable' = CostsAfterSpreads(costTable,
                      ParsePrices(stream[consumers[p].cur]))
    /\ UNCHANGED <<stream, groupExists, lastDelivered, pending, pc, cur,
                   batch, opps, written, dbOpen, redisOpen, acked,
                   crashedOn, crashedAtAck, parseFailedOn, runs, failures,
                   backlog, lastExit, owner, readBy, call, ret, emptyReads,
                   pricesTable, ingest>>

ProcParseFails(p) ==
    /\ consumers[p].pc = "handle"
    /\ ~ParseOk(stream[consumers[p].cur])
    /\ parseFailedOn' = parseFailedOn \cup {consumers[p].cur}
    /\ consumers' = [consumers EXCEPT ![p] = Idle]
    /\ UNCHANGED <<stream, groupExists, lastDelivered, pending, spreads, pc,
                   cur, batch, opps, written, dbOpen, redisOpen, acked,
                   crashedOn, crashedAtAck, runs, failures, backlog,
                   lastExit, owner, readBy, call, ret,
                   costTable, emptyReads,
                   pricesTable, ingest>>

ProcAck(p) ==
    /\ consumers[p].pc = "ack"
    /\ pending' = PendingAfterAck(consumers[p].cur)
    /\ owner' = [id \in pending' |-> owner[id]]
    /\ acked' = acked \cup {consumers[p].cur}
    /\ consumers' = [consumers EXCEPT ![p] = [pc |-> "read", cur |-> 0]]
    /\ UNCHANGED <<stream, groupExists, lastDelivered, spreads, pc, cur,
                   batch, opps, written, dbOpen, redisOpen, crashedOn,
                   crashedAtAck, parseFailedOn, runs, failures, backlog,
                   lastExit, readBy, call, ret,
                   costTable, emptyReads,
                   pricesTable, ingest>>

GroupNext ==
    \/ Publish
    \/ \E p \in Procs :
          \/ ProcStart(p)
          \/ ProcGroupCreate(p)
          \/ ProcRead(p)
          \/ ProcHandle(p)
          \/ ProcParseFails(p)
          \/ ProcAck(p)

GroupSpec == Init /\ [][GroupNext]_vars

(***************************************************************************)
(* The REST API (api.py): an endpoint called on a Store holding what the   *)
(* ingestion and the calculator have written.                              *)
(***************************************************************************)
RECURSIVE write_prices_to_db(_, _, _)
\* "for market, price in prices.items(): INSERT INTO prices ..."
write_prices_to_db(table, timestamp, prices) ==
    IF prices = <<>> THEN table
    ELSE write_prices_to_db(
             Append(table, [market    |-> Head(prices)[1],
                            timestamp |-> timestamp,
                            price     |-> Head(prices)[2]]),
             timestamp, Tail(prices))

\* What one iteration of the ingestion may have generated
IngestedPrices ==
    { << <<"DE", 6000>>, <<"FR", 8000>> >>,
      << <<"DE", 6100>> >> }

\* The prices table after no, one or two iterations of the ingestion
PriceTables ==
    {<<>>}
    \cup {write_prices_to_db(<<>>, 1, d) : d \in IngestedPrices}
    \cup {write_prices_to_db(write_prices_to_db(<<>>, 1, d), 2, e) :
              d \in IngestedPrices, e \in IngestedPrices}

\* The limits a client may send, around both ends of the accepted range
Limits == {0 - 1, 0, 1, 2, 1000, 1001, 5000}

RequestedMarkets == {"DE", "FR", "NONEXISTENT"}

\* "limit < 1 or limit > 1000"
LimitMin == 1

LimitMax == 1000

RECURSIVE OrderByTimestampDesc(_)
\* ORDER BY timestamp DESC
OrderByTimestampDesc(rows) ==
    IF rows = <<>> THEN <<>>
    ELSE LET i == CHOOSE i \in 1..Len(rows) :
                      \A j \in 1..Len(rows) : rows[j].timestamp <= rows[i].timestamp
         IN  <<rows[i]>>
             \o OrderByTimestampDesc(
                    [j \in 1..(Len(rows) - 1) |-> IF j < i THEN rows[j] ELSE rows[j + 1]])

\* LIMIT n
SqlLimit(rows, n) == [i \in 1..(IF n < Len(rows) THEN n ELSE Len(rows)) |-> rows[i]]

\* "SELECT EXISTS(SELECT 1 FROM prices WHERE market = $1)"
market_exists(table, market) == \E i \in 1..Len(table) : table[i].market = market

\* raise HTTPException(status_code=..., detail=...)
HTTPException(status_code, queries) ==
    [status |-> status_code, body |-> [detail |-> "detail"], queries |-> queries]

\* The handler asking the Store for the market before it looks at the limit
get_price_history_market_first(table, market, limit) ==
    IF ~market_exists(table, market) THEN HTTPException(404, 1)
    ELSE IF limit < LimitMin \/ limit > LimitMax THEN HTTPException(400, 1)
    ELSE LET rows == SqlLimit(OrderByTimestampDesc(
                         SelectSeq(table, LAMBDA r : r.market = market)), limit)
         IN  [status  |-> 200,
              body    |-> [market |-> market, history |-> rows],
              queries |-> 2]

\* get_price_history(market, limit): the response, and how many statements
\* it sent to the Store
get_price_history(table, market, limit) ==
    IF limit < LimitMin \/ limit > LimitMax THEN HTTPException(400, 0)
    ELSE IF ~market_exists(table, market) THEN HTTPException(404, 1)
    ELSE LET rows == SqlLimit(OrderByTimestampDesc(
                         SelectSeq(table, LAMBDA r : r.market = market)), limit)
         IN  [status  |-> 200,
              body    |-> [market  |-> market,
                           history |-> rows,
                           stats   |-> [latest  |-> rows[1].price,
                                        samples |-> Len(rows)]],
              queries |-> 2]

ReturnGetPriceHistory ==
    /\ call.fn = "get_price_history"
    /\ ~ret.done
    /\ ret' = [done |-> TRUE,
               val  |-> get_price_history(pricesTable, call.args[1], call.args[2])]
    /\ UNCHANGED <<call, pipelineVars, costTable>>

\* Snapshots the calculator may have handled, all prices stamped t
StoredSnapshots(t) ==
    { << <<"DE", <<6000, t>> >>, <<"FR", <<8000, t>> >>, <<"NL", <<6500, t>> >> >>,
      << <<"FR", <<6000, t>> >>, <<"DE", <<8000, t>> >> >>,
      << <<"DE", <<6000, t>> >>, <<"FR", <<6300, t>> >> >> }

\* Row timestamps, in seconds, around the edge of the endpoint's window
ApiTimes == {1, 300, 301, 600}

\* NOW() when the endpoint runs
ApiNow == {600, 601}

\* INTERVAL '5 minutes', in seconds
FiveMinutes == 300

\* "WHERE timestamp > NOW() - INTERVAL '5 minutes'"
RecentRows(table, now) ==
    SelectSeq(table, LAMBDA r : r.row.timestamp > now - FiveMinutes)

\* The market_pair values of the tables above, in ascending order of the
\* strings: what "ORDER BY market_pair" goes by
MarketPairOrder == <<"DE-FR", "DE-NL", "FR-DE", "NL-FR">>

\* The rows DISTINCT ON (market_pair) ... ORDER BY market_pair, timestamp DESC
\* may keep for a pair: one of its rows of the latest timestamp
LatestOf(rows, pair) ==
    {i \in 1..Len(rows) :
        /\ rows[i].row.market_pair = pair
        /\ \A j \in 1..Len(rows) :
              rows[j].row.market_pair = pair
                  => rows[j].row.timestamp <= rows[i].row.timestamp}

\* The result of the query under the choice pick of one row per pair
DistinctOnMarketPair(rows, pick) ==
    LET pairs == SelectSeq(MarketPairOrder, LAMBDA p : LatestOf(rows, p) # {})
    IN  [k \in 1..Len(pairs) |-> rows[pick[pairs[k]]].row]

\* float(row[...]): the nearest double; for amounts of two decimals of this
\* size distinct amounts stay distinct and in the same order
Float(d) == d

RECURSIVE SortByNetAscending(_)
\* The sort without reverse=True
SortByNetAscending(entries) ==
    IF entries = <<>> THEN <<>>
    ELSE LET rest == SortByNetAscending(Tail(entries))
             e    == Head(entries)
             k    == Cardinality({i \in 1..Len(rest) :
                          rest[i].net_opportunity < e.net_opportunity})
         IN  [i \in 1..(Len(rest) + 1) |->
                 IF i <= k THEN rest[i] ELSE IF i = k + 1 THEN e ELSE rest[i - 1]]

RECURSIVE SortByNetDescending(_)
\* opportunities.sort(key=lambda x: x["net_opportunity"], reverse=True):
\* stable, entries of equal key stay in their order
SortByNetDescending(entries) ==
    IF entries = <<>> THEN <<>>
    ELSE LET rest == SortByNetDescending(Tail(entries))
             e    == Head(entries)
             k    == Cardinality({i \in 1..Len(rest) :
                          rest[i].net_opportunity > e.net_opportunity})
         IN  [i \in 1..(Len(rest) + 1) |->
                 IF i <= k THEN rest[i] ELSE IF i = k + 1 THEN e ELSE rest[i - 1]]

\* The response built from the rows the query returned
OpportunitiesResponse(rows) ==
    LET opportunities ==
            SortByNetDescending(
                [i \in 1..Len(rows) |->
                    [rows[i] EXCEPT !.spread = Float(@),
                                    !.net_opportunity = Float(@),
                                    !.low_price = Float(@),
                                    !.high_price = Float(@)]])
    IN  [opportunities |-> opportunities, count |-> Len(opportunities)]

\* get_spread_opportunities(), NOW() being call.args[1]
ReturnGetSpreadOpportunities ==
    /\ call.fn = "get_spread_opportunities"
    /\ ~ret.done
    /\ LET rows == RecentRows(spreads, call.args[1])
       IN  \E pick \in [{p \in Range(MarketPairOrder) : LatestOf(rows, p) # {}}
                            -> 1..Len(rows)] :
              /\ \A p \in DOMAIN pick : pick[p] \in LatestOf(rows, p)
              /\ ret' = [done |-> TRUE,
                         val  |-> OpportunitiesResponse(
                                      DistinctOnMarketPair(rows, pick))]
    /\ UNCHANGED <<call, pipelineVars, costTable>>

ApiInit ==
    /\ LoopInit
    /\ ret = NoRet
    /\ \/ /\ spreads = <<>>
          /\ \E table \in PriceTables, market \in RequestedMarkets, limit \in Limits :
                /\ pricesTable = table
                /\ call = [fn |-> "get_price_history", args |-> <<market, limit>>]
       \/ /\ pricesTable = <<>>
          /\ \E now \in ApiNow :
                /\ call = [fn |-> "get_spread_opportunities", args |-> <<now>>]
                /\ \/ spreads = <<>>
                   \/ \E t1 \in ApiTimes : \E s1 \in StoredSnapshots(t1) :
                         spreads = write_spreads_to_db(<<>>, calculate_spreads(s1), 1)
                   \/ \E t1 \in ApiTimes, t2 \in ApiTimes :
                         \E s1 \in StoredSnapshots(t1), s2 \in StoredSnapshots(t2) :
                            spreads = write_spreads_to_db(
                                          write_spreads_to_db(<<>>, calculate_spreads(s1), 1),
                                          calculate_spreads(s2), 2)

ApiNext ==
    \/ ReturnGetPriceHistory
    \/ ReturnGetSpreadOpportunities

ApiSpec == ApiInit /\ [][ApiNext]_vars

(***************************************************************************)
(* src/src/ingestion.py: ingestion_loop, the only writer of the prices     *)
(* table and the publisher of the stream.  Its timestamps are              *)
(* datetime.now(): the clock of the process, one instant per iteration.    *)
(***************************************************************************)
\* What the ingestion neither reads nor writes
calculatorVars ==
    <<groupExists, lastDelivered, pending, spreads, pc, cur, batch, opps,
      written, dbOpen, redisOpen, acked, crashedOn, crashedAtAck,
      parseFailedOn, runs, backlog, lastExit, call, ret, consumers, owner,
      readBy, costTable, emptyReads>>

\* An iteration that publishes the snapshot before it writes the prices
IterationOrderPublishFirst == <<"publish", "write", "sleep">>

\* The awaits of one iteration, lines 56, 57 and 62: write_prices_to_db,
\* publish_to_redis, asyncio.sleep(10)
IterationOrder == <<"write", "publish", "sleep">>

\* Where the iteration goes after the await it is at: the next await, or
\* the top of "while True"
AfterAwait(at) ==
    LET i == CHOOSE k \in 1..Len(IterationOrder) : IterationOrder[k] = at
    IN  IF i = Len(IterationOrder) THEN "tick" ELSE IterationOrder[i + 1]

\* Lines 42-46: asyncio.run(ingestion_loop()) connects to the Store and to
\* the Stream
IngestStart ==
    /\ ingest.pc = "down"
    /\ ingest' = [ingest EXCEPT !.pc = "tick"]
    /\ UNCHANGED <<calculatorVars, stream, failures, pricesTable>>

\* Lines 52-54: timestamp = datetime.now(), data = generate_prices(hours=1),
\* prices = data[0]["prices"]; the model follows MaxStream iterations
IngestTick ==
    /\ ingest.pc = "tick"
    /\ ingest.clock < MaxStream
    /\ \E draw \in RandomDraws :
          ingest' = [ingest EXCEPT
                        !.pc = IterationOrder[1],
                        !.clock = @ + 1,
                        !.timestamp = ingest.clock + 1,
                        !.prices = generate_prices(1, <<draw>>)[1].prices,
                        !.written = 0]
    /\ UNCHANGED <<calculatorVars, stream, failures, pricesTable>>

\* Line 56, one iteration of the for loop of write_prices_to_db (lines
\* 22-29): the INSERT of one market
IngestInsert ==
    /\ ingest.pc = "write"
    /\ ingest.written < Len(ingest.prices)
    /\ pricesTable' = write_prices_to_db(
                          pricesTable, ingest.timestamp,
                          SubSeq(ingest.prices, ingest.written + 1,
                                 ingest.written + 1))
    /\ ingest' = [ingest EXCEPT !.written = @ + 1]
    /\ UNCHANGED <<calculatorVars, stream, failures>>

\* write_prices_to_db returns after the last market
IngestWritten ==
    /\ ingest.pc = "write"
    /\ ingest.written = Len(ingest.prices)
    /\ ingest' = [ingest EXCEPT !.pc = AfterAwait("write")]
    /\ UNCHANGED <<calculatorVars, stream, failures, pricesTable>>

\* conn.execute raises (Store unavailable): the exception leaves
\* write_prices_to_db and the loop, the finally block runs (lines 66-68)
IngestInsertFails ==
    /\ ingest.pc = "write"
    /\ ingest.written < Len(ingest.prices)
    /\ failures < MaxFailures
    /\ failures' = failures + 1
    /\ ingest' = [ingest EXCEPT !.pc = "down",
                                !.failed = @ \cup {ingest.timestamp}]
    /\ UNCHANGED <<calculatorVars, stream, pricesTable>>

\* Line 57: publish_to_redis, lines 33-38
IngestPublish ==
    /\ ingest.pc = "publish"
    /\ stream' = xadd(stream, PublishData(ingest.timestamp, ingest.prices))
    /\ ingest' = [ingest EXCEPT !.pc = AfterAwait("publish")]
    /\ UNCHANGED <<calculatorVars, failures, pricesTable>>

\* xadd raises (Stream unavailable): the exception leaves the loop
IngestPublishFails ==
    /\ ingest.pc = "publish"
    /\ failures < MaxFailures
    /\ failures' = failures + 1
    /\ ingest' = [ingest EXCEPT !.pc = "down"]
    /\ UNCHANGED <<calculatorVars, stream, pricesTable>>

\* Lines 59-62: the iteration is counted and printed, then sleeps 10 seconds
IngestSleep ==
    /\ ingest.pc = "sleep"
    /\ ingest' = [ingest EXCEPT !.pc = AfterAwait("sleep")]
    /\ UNCHANGED <<calculatorVars, stream, failures, pricesTable>>

\* The process is interrupted or killed at one of its awaits
IngestInterrupt ==
    /\ ingest.pc \in {"write", "publish", "sleep"}
    /\ failures < MaxFailures
    /\ failures' = failures + 1
    /\ ingest' = [ingest EXCEPT !.pc = "down"]
    /\ UNCHANGED <<calculatorVars, stream, pricesTable>>

IngestNext ==
    \/ IngestStart
    \/ IngestTick
    \/ IngestInsert
    \/ IngestWritten
    \/ IngestInsertFails
    \/ IngestPublish
    \/ IngestPublishFails
    \/ IngestSleep
    \/ IngestInterrupt

IngestSpec == Init /\ [][IngestNext]_vars

(***************************************************************************)
(* Properties of the consumer loop.                                        *)
(***************************************************************************)
Delivered == 1..lastDelivered

\* The opportunities derived from stream entry m
OppsOf(m) == OppsOfData(stream[m])

RowsOf(m) == {j \in 1..Len(spreads) : spreads[j].src = m}

\* Every opportunity derived from entry m is a row of the spreads table
AllRowsPresent(m) ==
    LET found  == OppsOf(m)
        stored == {spreads[j].row : j \in RowsOf(m)}
    IN  \A i \in 1..Len(found) : found[i] \in stored

\* C1: a message is acknowledged only after every opportunity derived from
\* it has been inserted: every acknowledged message is well-formed and has
\* all of its derived rows in the spreads table.
C1_AckOnlyAfterPersist ==
    \A m \in acked : ParseOk(stream[m]) /\ AllRowsPresent(m)

C1_Witness ==
    \E m \in acked : Len(OppsOf(m)) >= 2 /\ Cardinality(RowsOf(m)) >= 2

\* C2: when the consumer fails between receiving a message and acknowledging
\* it (a crash, or a Store error while persisting), no acknowledgment is sent
\* for the message and it stays in the group's pending entries list.
C2_FailureLeavesPending ==
    /\ crashedOn \subseteq pending
    /\ crashedOn \cap acked = {}

C2_Witness ==
    /\ crashedOn # {}
    /\ runs >= 2
    /\ pc = "read"
    /\ \E m \in crashedOn : RowsOf(m) # {} /\ Cardinality(RowsOf(m)) < Len(OppsOf(m))

\* C3: a message received but not acknowledged because of a crash or a Store
\* error is processed again after the restart: whenever the consumer is at
\* its read with such a message outstanding, the read delivers such a message.
C3_RedeliveredAfterRestart ==
    (pc = "read" /\ crashedOn \ acked # {}) => NextDelivery \in crashedOn

\* C4: a message whose rows were all persisted when the consumer crashed
\* before the acknowledgment is reprocessed after the restart and persisted
\* again: once the consumer has gone on to acknowledge a later message, the
\* Store holds the rows of the crashed message twice.
C4_DuplicateRowsAfterCrashAtAck ==
    \A m \in crashedAtAck :
        (\E n \in acked : n > m) =>
            Cardinality(RowsOf(m)) >= 2 * Len(OppsOf(m))

\* C5: a message that fails to parse does not end the consumer loop: it is
\* acknowledged and the loop reads on.
C5_ParseFailureAcked ==
    \A m \in parseFailedOn : m \in acked /\ m \notin pending

\* C6: creating the group when it already exists is caught and changes
\* nothing: a step of the process out of the group creation, with the group
\* already there, leaves the group's position and pending list as they were
\* and takes the process to its read loop.
C6_GroupCreateIdempotent ==
    [][(pc = "group" /\ groupExists /\ pc' # "group" /\ failures' = failures)
        => (/\ pc' = "read"
            /\ groupExists'
            /\ lastDelivered' = lastDelivered
            /\ pending' = pending)]_vars

C6_Witness ==
    /\ runs >= 2
    /\ pc = "read"
    /\ lastDelivered >= 1
    /\ pending # {}

\* C7: the group starts at the beginning of the stream: on the first run,
\* the consumer waits at its read with nothing left to deliver only when
\* every entry of the stream, those published before it started included,
\* has been delivered, persisted and acknowledged.
C7_BacklogProcessedOnFirstRun ==
    (runs = 1 /\ pc = "read" /\ NextDelivery = 0) =>
        \A m \in 1..Len(stream) :
            m \in Delivered /\ m \in acked /\ AllRowsPresent(m)

C7_Witness ==
    /\ runs = 1
    /\ pc = "read"
    /\ NextDelivery = 0
    /\ backlog >= 2
    /\ 1 \in acked
    /\ RowsOf(1) # {}

(***************************************************************************)
(* Properties of the pure functions.                                       *)
(***************************************************************************)
Abs(x) == IF x >= 0 THEN x ELSE -x

Returned(fn) == call.fn = fn /\ ret.done

PriceIn(prices, market) == Item(prices, market)[1]

\* The returned opportunities between markets A and B, in either role
FoundFor(result, A, B) ==
    {i \in 1..Len(result) :
        {result[i].low_market, result[i].high_market} = {A, B}}

\* C8: for two markets A, B of the snapshot with distinct prices pa, pb,
\* calculate_spreads returns an opportunity for {A, B} if and only if
\* |pa - pb| > cost(A, B), and that opportunity has spread = |pa - pb| and
\* net_opportunity = |pa - pb| - cost(A, B).
C8_OpportunityIffSpreadExceedsCost ==
    Returned("calculate_spreads") =>
        LET prices == call.args[1] IN
        \A A \in KeySet(prices), B \in KeySet(prices) :
            (A # B /\ PriceIn(prices, A) # PriceIn(prices, B)) =>
                LET diff  == Abs(PriceIn(prices, A) - PriceIn(prices, B))
                    cost  == get_transmission_cost(A, B)
                    found == FoundFor(ret.val, A, B)
                IN  /\ (found # {}) <=> (diff > cost)
                    /\ \A i \in found :
                          /\ ret.val[i].spread = diff
                          /\ ret.val[i].net_opportunity = diff - cost

C8_Witness ==
    /\ Returned("calculate_spreads")
    /\ LET prices == call.args[1] IN
       /\ \E A \in KeySet(prices), B \in KeySet(prices) :
             /\ Abs(PriceIn(prices, A) - PriceIn(prices, B)) = 250
             /\ get_transmission_cost(A, B) = 250
             /\ FoundFor(ret.val, A, B) = {}
       /\ \E i \in 1..Len(ret.val) :
             /\ ret.val[i].spread = 251
             /\ ret.val[i].net_opportunity = 101
       /\ \E i \in 1..Len(ret.val) :
             /\ ret.val[i].high_market = Keys(prices)[1]
             /\ ret.val[i].net_opportunity = ret.val[i].spread

\* C9: two markets with equal prices give no opportunity, whether the
\* pair's transmission cost is configured or defaults to zero.
C9_EqualPricesNoOpportunity ==
    Returned("calculate_spreads") =>
        LET prices == call.args[1] IN
        \A A \in KeySet(prices), B \in KeySet(prices) :
            (A # B /\ PriceIn(prices, A) = PriceIn(prices, B)) =>
                FoundFor(ret.val, A, B) = {}

C9_Witness ==
    /\ Returned("calculate_spreads")
    /\ LET prices == call.args[1] IN
       /\ \E A \in KeySet(prices), B \in KeySet(prices) :
             /\ A # B
             /\ PriceIn(prices, A) = PriceIn(prices, B)
             /\ get_transmission_cost(A, B) = 0
       /\ \E A \in KeySet(prices), B \in KeySet(prices) :
             /\ A # B
             /\ PriceIn(prices, A) = PriceIn(prices, B)
             /\ get_transmission_cost(A, B) > 0

\* C10: get_transmission_cost is symmetric and total: cost(a, b) = cost(b, a);
\* a pair configured in either orientation returns its configured cost, a
\* pair configured in neither returns zero.
C10_CostSymmetricTotal ==
    Returned("get_transmission_cost") =>
        LET a   == call.args[1]
            b   == call.args[2]
            fwd == a \o "-" \o b
            rev == b \o "-" \o a
            configured == KeySet(TRANSMISSION_COSTS)
        IN  /\ ret.val = get_transmission_cost(b, a)
            /\ fwd \in configured => ret.val = Item(TRANSMISSION_COSTS, fwd)
            /\ rev \in configured => ret.val = Item(TRANSMISSION_COSTS, rev)
            /\ (fwd \notin configured /\ rev \notin configured) => ret.val = 0

C10_Witness ==
    /\ Returned("get_transmission_cost")
    /\ call.args = <<"FR", "DE">>
    /\ ret.val = 250

\* C11: every returned opportunity is named low_market-high_market, where
\* low_market is the market with the lower price of the snapshot and
\* high_market the one with the higher price, whatever the key order.
C11_PairNamedLowHigh ==
    Returned("calculate_spreads") =>
        LET prices == call.args[1] IN
        \A i \in 1..Len(ret.val) :
            LET o == ret.val[i] IN
            /\ o.market_pair = o.low_market \o "-" \o o.high_market
            /\ o.low_market \in KeySet(prices)
            /\ o.high_market \in KeySet(prices)
            /\ o.low_price = PriceIn(prices, o.low_market)
            /\ o.high_price = PriceIn(prices, o.high_market)
            /\ PriceIn(prices, o.low_market) < PriceIn(prices, o.high_market)

\* The first key is the dearer market: the name is the reverse of key order
C11_Witness ==
    /\ Returned("calculate_spreads")
    /\ Len(call.args[1]) = 2
    /\ Keys(call.args[1]) = <<"DE", "FR">>
    /\ Len(ret.val) = 1
    /\ ret.val[1].market_pair = "FR-DE"
    /\ ret.val[1].low_market = "FR"

\* C12: for a snapshot of n markets there is at most one opportunity per
\* unordered pair of distinct markets, hence at most n(n-1)/2, and every
\* opportunity has low_price < high_price and spread = high - low > 0.
C12_AtMostOnePerPair ==
    Returned("calculate_spreads") =>
        LET prices == call.args[1]
            n      == Len(prices)
        IN  /\ \A A \in KeySet(prices), B \in KeySet(prices) :
                  A # B => Cardinality(FoundFor(ret.val, A, B)) <= 1
            /\ 2 * Len(ret.val) <= n * (n - 1)
            /\ \A i \in 1..Len(ret.val) :
                  /\ ret.val[i].low_market # ret.val[i].high_market
                  /\ ret.val[i].low_price < ret.val[i].high_price
                  /\ ret.val[i].spread
                        = ret.val[i].high_price - ret.val[i].low_price
                  /\ ret.val[i].spread > 0

\* Three markets, all three pairs profitable
C12_Witness ==
    /\ Returned("calculate_spreads")
    /\ Len(call.args[1]) = 3
    /\ Len(ret.val) = 3

\* C13: every row the consumer has written to the spreads table has
\* net_opportunity > 0: pairs whose spread does not exceed the transmission
\* cost leave no row.
C13_StoredRowsProfitable ==
    \A j \in 1..Len(spreads) :
        /\ spreads[j].row.net_opportunity > 0
        /\ spreads[j].row.net_opportunity
              = spreads[j].row.spread
                  - get_transmission_cost(spreads[j].row.low_market,
                                          spreads[j].row.high_market)

\* Two messages handled to the end: one left rows, the other, whose pairs
\* have a spread of 0 or below the cost, left none
C13_Witness ==
    /\ spreads # <<>>
    /\ \E m \in acked :
          /\ RowsOf(m) = {}
          /\ ParseOk(stream[m])
          /\ \E A \in KeySet(ParsePrices(stream[m])),
                B \in KeySet(ParsePrices(stream[m])) :
                PriceIn(ParsePrices(stream[m]), A)
                    < PriceIn(ParsePrices(stream[m]), B)

\* The messages that parse to at most one market
FewMarkets(m) == ParseOk(stream[m]) /\ Len(ParsePrices(stream[m])) <= 1

\* C14: calculate_spreads returns the empty list, without error, for a
\* snapshot of no market or of one market; in the loop a message carrying
\* zero or one market writes no rows and still goes on to its xack.
C14_FewMarketsNoRowsStillAcked ==
    /\ Returned("calculate_spreads") /\ Len(call.args[1]) <= 1
          => ret.val = <<>>
    /\ \A m \in Delivered :
          FewMarkets(m) =>
              /\ RowsOf(m) = {}
              /\ m = cur => pc \in {"handle", "ack"}
              /\ m \in acked \/ m = cur \/ m \in crashedOn

\* A message of one market and a message of none were both acknowledged,
\* and the table is empty
C14_Witness ==
    /\ spreads = <<>>
    /\ failures = 0
    /\ pc = "read"
    /\ \E m \in acked : Len(stream[m]) = 2 /\ FewMarkets(m)
    /\ \E m \in acked : Len(stream[m]) = 1 /\ FewMarkets(m)

\* A message as publish_to_redis writes it: an ISO timestamp under
\* "timestamp", a decimal string under every other key
WellFormed(data) ==
    /\ \E i \in 1..Len(data) : data[i][1] = "timestamp" /\ FromIsoOk(data[i][2])
    /\ \A i \in 1..Len(data) : data[i][1] # "timestamp" => DecimalOk(data[i][2])

\* C15: in the parse the key "timestamp" is never a market: the markets are
\* the message's keys minus "timestamp", each with its own decimal price, and
\* all of them carry the one timestamp parsed from the "timestamp" field.
C15_TimestampNeverMarket ==
    Returned("calculate_and_store_spreads_from_redis") =>
        LET data   == call.args[1]
            prices == ret.val.prices
        IN  /\ WellFormed(data) <=> ~ret.val.raised
            /\ ~ret.val.raised =>
                  /\ KeySet(prices) = KeySet(data) \ {"timestamp"}
                  /\ Len(prices) = Len(data) - 1
                  /\ \A i \in 1..Len(prices) :
                        /\ prices[i][1] # "timestamp"
                        /\ prices[i][2][1] = Decimal(Item(data, prices[i][1]))
                        /\ prices[i][2][2] = fromisoformat(Item(data, "timestamp"))

\* Three markets around the timestamp field, all parsed, timestamp 2
C15_Witness ==
    /\ Returned("calculate_and_store_spreads_from_redis")
    /\ ~ret.val.raised
    /\ Keys(call.args[1]) = <<"DE", "timestamp", "FR", "NL">>
    /\ Keys(ret.val.prices) = <<"DE", "FR", "NL">>
    /\ \A i \in 1..3 : ret.val.prices[i][2][2] = 2

\* C16: calculate_and_store_spreads_from_redis called again with the same
\* data appends the same rows again: after n calls the table holds n copies
\* of the calculated opportunities, in order, none skipped or overwritten.
C16_RepeatedCallAppendsAgain ==
    Returned("calculate_and_store_spreads_from_redis") /\ ~ret.val.raised =>
        LET found == calculate_spreads(ret.val.prices)
            total == Len(found)
        IN  /\ Len(spreads) = ret.val.calls * total
            /\ \A k \in 1..ret.val.calls, i \in 1..total :
                  /\ spreads[(k - 1) * total + i].row = found[i]
                  /\ spreads[(k - 1) * total + i].src = k

\* Two calls with a message of two opportunities: four rows, the third and
\* fourth repeating the first and second
C16_Witness ==
    /\ Returned("calculate_and_store_spreads_from_redis")
    /\ ret.val.calls = 2
    /\ Len(spreads) = 4
    /\ spreads[3].row = spreads[1].row
    /\ spreads[4].row = spreads[2].row
    /\ spreads[1].row # spreads[2].row

\* The pairs of markets of message m whose price difference exceeds the
\* transmission cost between them
ProfitablePairs(m) ==
    LET prices == ParsePrices(stream[m])
    IN  {pr \in SUBSET KeySet(prices) :
            /\ Cardinality(pr) = 2
            /\ \E A \in pr, B \in pr :
                  PriceIn(prices, B) - PriceIn(prices, A)
                      > get_transmission_cost(A, B)}

\* C17: with no failure, once the loop has read a published message and
\* finished the iteration, the rows added for it are as many as its
\* profitable pairs and the message is acknowledged: no longer pending.
C17_IterationStoresAndAcks ==
    failures = 0 /\ parseFailedOn = {} =>
        /\ \A m \in acked :
              /\ Cardinality(RowsOf(m)) = Cardinality(ProfitablePairs(m))
              /\ m \notin pending
        /\ pc = "read" =>
              /\ acked = Delivered
              /\ pending = {}
              /\ \A j \in 1..Len(spreads) : spreads[j].src \in acked

\* The three-market message gave three rows and was acknowledged; the
\* message of an unprofitable pair gave none
C17_Witness ==
    /\ failures = 0
    /\ pc = "read"
    /\ acked = {1, 2}
    /\ pending = {}
    /\ Cardinality(RowsOf(1)) = 3
    /\ Len(stream[2]) = 4
    /\ RowsOf(2) = {}

\* The messages delivered to the consumer and neither acknowledged nor
\* abandoned by a run that ended on them
InFlight == pending \ (crashedOn \cup parseFailedOn)

\* C18: at most one message is in flight: a read delivers one entry, and only
\* when every message read before is persisted and acknowledged; messages
\* are acknowledged in the order they were read.
C18_OneMessageInFlight ==
    /\ [](/\ Cardinality(InFlight) <= 1
          /\ batch = <<>>
          /\ InMessage => cur = lastDelivered /\ InFlight \subseteq {cur})
    /\ [][lastDelivered' # lastDelivered =>
              /\ pc = "read"
              /\ lastDelivered' = lastDelivered + 1
              /\ cur' = lastDelivered'
              /\ InFlight = {}
              /\ \A m \in Delivered \ (crashedOn \cup parseFailedOn) :
                    m \in acked /\ AllRowsPresent(m)]_vars
    /\ [][acked' # acked =>
              /\ acked' = acked \cup {cur}
              /\ cur = lastDelivered
              /\ \A a \in acked : a <= cur]_vars

\* The second message is being written after the first was stored and
\* acknowledged
C18_Witness ==
    /\ failures = 0
    /\ lastDelivered = 2
    /\ cur = 2
    /\ pc = "write"
    /\ acked = {1}
    /\ pending = {2}
    /\ RowsOf(1) # {}

\* C20: whenever the loop is left by an interrupt or by an error raised
\* while reading, processing or acknowledging, both the Store connection and
\* the Stream connection acquired at startup have been closed when
\* calculator_loop has ended.
C20_ConnectionsClosedOnExit ==
    pc = "down" /\ lastExit \in {"interrupt", "error"} =>
        ~dbOpen /\ ~redisOpen

\* The loop was interrupted in its blocking read, nothing being handled, and
\* both connections are closed
C20_Witness ==
    /\ pc = "down"
    /\ lastExit = "interrupt"
    /\ runs = 1
    /\ pending = {}
    /\ groupExists
    /\ ~dbOpen
    /\ ~redisOpen

\* Every entry was read by one process only: '>' hands out an entry once
DeliveredToOneProcess ==
    \A r1 \in readBy, r2 \in readBy : r1.id = r2.id => r1.proc = r2.proc

\* C19: processes that share the group read under distinct consumer names
\* of their own, and every message is delivered to exactly one of them.
C19_OwnConsumerNames ==
    /\ \A r1 \in readBy, r2 \in readBy :
          r1.proc # r2.proc => r1.name # r2.name
    /\ DeliveredToOneProcess

\* C21: the spreads table is append-only for the consumer loop: no step
\* changes or removes a row already written, and the row count never
\* decreases.
C21_SpreadsAppendOnly ==
    [][/\ Len(spreads') >= Len(spreads)
       /\ \A j \in 1..Len(spreads) : spreads'[j] = spreads[j]]_vars

\* Two messages of the same pairs were stored one after the other: the rows
\* of the first are still there, in front of those of the second
C21_Witness ==
    /\ Len(spreads) = 6
    /\ \A j \in 1..3 : spreads[j].src = 1 /\ spreads[j + 3].src = 2
    /\ \A j \in 1..3 : spreads[j].row.market_pair = spreads[j + 3].row.market_pair
    /\ \A j \in 1..3 : spreads[j].row.timestamp # spreads[j + 3].row.timestamp

\* C22: the cost table is read-only: after any lookup, calculation or step
\* of the consumer loop it is the table the module was loaded with, and a
\* lookup repeated with the same arguments returns the value it returned
\* before.
C22_CostTableReadOnly ==
    /\ costTable = TRANSMISSION_COSTS
    /\ Returned("get_transmission_cost") =>
          ret.val = get_transmission_cost(call.args[1], call.args[2])

\* A lookup of a pair in neither orientation has returned 0 and the table
\* has no entry for it
C22_Witness ==
    /\ Returned("get_transmission_cost")
    /\ call.args = <<"DE", "AT">>
    /\ ret.val = 0
    /\ "DE-AT" \notin KeySet(costTable)
    /\ "AT-DE" \notin KeySet(costTable)
    /\ Len(costTable) = 11

\* C23: the read asks for one message and waits without limit.  While the
\* group (it exists) has no undelivered message a consumer sitting in its
\* read does nothing: no row is written, nothing is acknowledged, no read returns
\* empty-handed; and a read that returns delivers exactly one message.
C23_BlockingReadOfOne ==
    /\ [](emptyReads = 0)
    /\ [][pc = "read" /\ groupExists /\ NextDelivery = 0
              /\ failures' = failures =>
              /\ pc' = "read"
              /\ spreads' = spreads
              /\ acked' = acked
              /\ pending' = pending
              /\ lastDelivered' = lastDelivered
              /\ cur' = 0]_vars
    /\ [][lastDelivered' # lastDelivered =>
              /\ lastDelivered' = lastDelivered + 1
              /\ pending' = pending \cup {lastDelivered'}
              /\ cur' = lastDelivered'
              /\ batch' = <<>>]_vars

\* The consumer waits in its read, everything published handled, and a
\* second message is yet to come
C23_Witness ==
    /\ pc = "read"
    /\ Len(stream) = 1
    /\ lastDelivered = 1
    /\ acked = {1}
    /\ NextDelivery = 0
    /\ emptyReads = 0
    /\ failures = 0

\* C24: every call of publish_to_redis appends exactly one message: its keys
\* are "timestamp" and the market codes of the prices given, the timestamp
\* in ISO format and every price as a string.
C24_PublishOneMessage ==
    Returned("publish_to_redis") =>
        LET timestamp == call.args[1]
            prices    == call.args[2]
        IN  /\ Len(stream) = ret.val.calls
            /\ \A k \in 1..Len(stream) :
                  /\ KeySet(stream[k]) = {"timestamp"} \cup KeySet(prices)
                  /\ Len(stream[k]) = Len(prices) + 1
                  /\ Item(stream[k], "timestamp") = isoformat(timestamp)
                  /\ \A market \in KeySet(prices) :
                        Item(stream[k], market) = str(Item(prices, market))

\* One call with the prices of three markets: one message of four fields
C24_Witness ==
    /\ Returned("publish_to_redis")
    /\ ret.val.calls = 1
    /\ Len(call.args[2]) = 3
    /\ Len(stream) = 1
    /\ Len(stream[1]) = 4
    /\ Keys(stream[1]) = <<"timestamp", "FR", "DE", "AT">>

\* C25: the price-history endpoint answers a limit outside 1..1000 with 400
\* before it sends anything to the Store, whatever the market; with a valid
\* limit a market without price rows gets 404; neither answer carries a
\* history.
C25_LimitCheckedBeforeMarket ==
    Returned("get_price_history") =>
        LET market == call.args[1]
            limit  == call.args[2]
            known  == \E i \in 1..Len(pricesTable) : pricesTable[i].market = market
        IN  /\ limit < 1 \/ limit > 1000 =>
                  /\ ret.val.status = 400
                  /\ ret.val.queries = 0
            /\ limit >= 1 /\ limit <= 1000 /\ ~known => ret.val.status = 404
            /\ limit >= 1 /\ limit <= 1000 /\ known => ret.val.status = 200
            /\ ret.val.status \in {400, 404} =>
                  "history" \notin DOMAIN ret.val.body

\* A limit of 5000 for a market the Store has never seen: 400, not 404
C25_Witness ==
    /\ Returned("get_price_history")
    /\ call.args = <<"NONEXISTENT", 5000>>
    /\ pricesTable # <<>>
    /\ ret.val.status = 400
    /\ ret.val.queries = 0

\* C26: the opportunities endpoint returns one entry per market_pair among
\* the rows of the last five minutes, that entry a row of the pair's latest
\* timestamp; the entries are in descending order of net_opportunity and
\* count is their number.
C26_LatestPerPairBestFirst ==
    Returned("get_spread_opportunities") =>
        LET out    == ret.val.opportunities
            recent == {spreads[j].row : j \in {j \in 1..Len(spreads) :
                          spreads[j].row.timestamp > call.args[1] - 300}}
        IN  /\ \A i \in 1..Len(out), j \in 1..Len(out) :
                  i # j => out[i].market_pair # out[j].market_pair
            /\ \A i \in 1..Len(out) :
                  /\ out[i] \in recent
                  /\ \A r \in recent :
                        r.market_pair = out[i].market_pair
                            => r.timestamp <= out[i].timestamp
            /\ \A r \in recent :
                  \E i \in 1..Len(out) : out[i].market_pair = r.market_pair
            /\ \A i \in 1..Len(out), j \in 1..Len(out) :
                  i < j => out[i].net_opportunity >= out[j].net_opportunity
            /\ ret.val.count = Len(out)

\* DE-FR was stored twice, at 301 and at 600, and DE-NL and NL-FR once: three
\* entries, the DE-FR one from 600 and last, being the least profitable
C26_Witness ==
    /\ Returned("get_spread_opportunities")
    /\ call.args[1] = 600
    /\ Len(spreads) = 4
    /\ ret.val.count = 3
    /\ ret.val.opportunities[3].market_pair = "DE-FR"
    /\ ret.val.opportunities[3].timestamp = 600
    /\ ret.val.opportunities[3].net_opportunity = 50
    /\ ret.val.opportunities[1].market_pair = "NL-FR"

\* C27: for every hours >= 0, generate_prices(hours) returns exactly hours
\* entries, and the prices of every entry have a key for every market of
\* MARKETS and no other key.
C27_HoursEntriesAllMarkets ==
    Returned("generate_prices") /\ call.args[1] >= 0 =>
        /\ Len(ret.val) = call.args[1]
        /\ \A k \in 1..Len(ret.val) :
              /\ KeySet(ret.val[k].prices) = {"DE", "FR", "NL", "BE", "AT"}
              /\ Len(ret.val[k].prices) = 5

\* Two hours asked for, two entries of five markets each, with different
\* prices
C27_Witness ==
    /\ Returned("generate_prices")
    /\ call.args[1] = 2
    /\ Len(ret.val) = 2
    /\ Keys(ret.val[1].prices) = <<"DE", "FR", "NL", "BE", "AT">>
    /\ ret.val[1].prices # ret.val[2].prices

\* Where message m is in its handling.  The parse and the calculation are
\* one step of the loop: "Received" is a message read and not yet parsed,
\* "Calculated" one whose opportunities are being written, "Persisted" one
\* with nothing left to write.
MessageState(m) ==
    IF m \in acked THEN "Acked"
    ELSE IF m \in parseFailedOn THEN "ParseFailed"
    ELSE IF m \in crashedOn THEN "PendingRedelivery"
    ELSE IF m # cur THEN "Unread"
    ELSE IF pc = "handle" THEN "Received"
    ELSE IF pc = "write" THEN "Calculated"
    ELSE "Persisted"

\* The steps the per-message state machine allows
MessageSteps ==
    { <<"Unread", "Received">>,
      <<"Received", "ParseFailed">>, <<"ParseFailed", "Acked">>,
      <<"Received", "Calculated">>, <<"Received", "Persisted">>,
      <<"Calculated", "Persisted">>, <<"Persisted", "Acked">>,
      <<"Received", "PendingRedelivery">>,
      <<"Calculated", "PendingRedelivery">>,
      <<"Persisted", "PendingRedelivery">> }

\* C28: every message goes Received, Parsing, then ParseFailed and Acked, or
\* Parsed, Calculated, Persisted and Acked, in that order; a message the
\* consumer is no longer handling is Acked or pending for redelivery after
\* a crash before the ack.
C28_MessageStateMachine ==
    /\ [](\A m \in Delivered :
              m # cur => MessageState(m) \in {"Acked", "PendingRedelivery"})
    /\ [][\A m \in 1..Len(stream) :
              \/ MessageState(m)' = MessageState(m)
              \/ <<MessageState(m), MessageState(m)'>> \in MessageSteps]_vars

\* The part of the state machine the loop does follow: the order of the
\* steps, with ParseFailed as a third way for a message to end
MessageStepsFollowed ==
    /\ [](\A m \in Delivered :
              m # cur => MessageState(m) \in {"Acked", "PendingRedelivery",
                                              "ParseFailed"})
    /\ [][\A m \in 1..Len(stream) :
              \/ MessageState(m)' = MessageState(m)
              \/ <<MessageState(m), MessageState(m)'>>
                     \in MessageSteps \ {<<"ParseFailed", "Acked">>}]_vars

\* C29: the filter is strict at the boundary: a pair whose spread equals its
\* transmission cost gives no opportunity; a pair whose spread is the cost
\* plus one cent, the cost of an unconfigured pair being 0, gives exactly
\* one, with that cent as net_opportunity.
C29_StrictAtBoundary ==
    Returned("calculate_spreads") =>
        LET prices == call.args[1]
        IN  \A A \in KeySet(prices), B \in KeySet(prices) :
                LET d == PriceIn(prices, B) - PriceIn(prices, A)
                    c == get_transmission_cost(A, B)
                IN  /\ A # B /\ d >= 0 /\ d = c => FoundFor(ret.val, A, B) = {}
                    /\ A # B /\ d = c + 1 =>
                          /\ Cardinality(FoundFor(ret.val, A, B)) = 1
                          /\ \A i \in FoundFor(ret.val, A, B) :
                                /\ ret.val[i].net_opportunity = 1
                                /\ ret.val[i].spread = d
                                /\ ret.val[i].low_market = A
                                /\ ret.val[i].high_market = B

\* DE 60.00, FR 62.50, AT 62.51: DE-FR is at its cost of 2.50 and gives
\* nothing, FR-AT has no configured cost and gives one cent
C29_Witness ==
    /\ Returned("calculate_spreads")
    /\ call.args[1] = << <<"DE", <<6000, 1>> >>, <<"FR", <<6250, 1>> >>,
                         <<"AT", <<6251, 1>> >> >>
    /\ FoundFor(ret.val, "DE", "FR") = {}
    /\ \E i \in FoundFor(ret.val, "FR", "AT") :
          ret.val[i].net_opportunity = 1 /\ ret.val[i].spread = 1
    /\ Len(ret.val) = 2

\* C30: the timestamp of every opportunity is the later of the timestamps
\* of its two markets; when all markets of the snapshot share one timestamp,
\* every opportunity carries it.
C30_TimestampIsMax ==
    Returned("calculate_spreads") =>
        LET prices == call.args[1]
            stamp(market) == Item(prices, market)[2]
        IN  /\ \A i \in 1..Len(ret.val) :
                  /\ ret.val[i].timestamp >= stamp(ret.val[i].low_market)
                  /\ ret.val[i].timestamp >= stamp(ret.val[i].high_market)
                  /\ ret.val[i].timestamp \in {stamp(ret.val[i].low_market),
                                               stamp(ret.val[i].high_market)}
            /\ \A t \in CallTimestamps :
                  (\A market \in KeySet(prices) : stamp(market) = t)
                      => \A i \in 1..Len(ret.val) : ret.val[i].timestamp = t

\* The first market of the pair has the earlier timestamp and the second
\* the later: the opportunity carries the later one
C30_Witness ==
    /\ Returned("calculate_spreads")
    /\ call.args[1] = << <<"FR", <<6251, 1>> >>, <<"DE", <<6000, 2>> >> >>
    /\ Len(ret.val) = 1
    /\ ret.val[1].timestamp = 2

(***************************************************************************)
(* The consumer without failures of the Store, of the Stream or of the     *)
(* process, under the scheduling of the event loop.                        *)
(***************************************************************************)
\* One step of calculator_loop while it runs: lines 183-207
LoopStep ==
    \/ GroupCreate
    \/ XReadGroup
    \/ ParseFails
    \/ Calculate
    \/ Insert
    \/ XAck

LiveNext ==
    \/ Publish
    \/ Start
    \/ LoopStep

\* asyncio.run drives the coroutine: an await that can complete does, so a
\* running loop takes its next step.  Nothing in the code starts the process
\* again once calculator_loop has returned: Start carries no fairness.
LiveSpec == Init /\ [][LiveNext]_vars /\ WF_vars(LoopStep)

\* C31: a malformed message never stalls the pipeline: once it has been
\* delivered, every well-formed message published after it is eventually
\* processed and acknowledged, and the malformed message is not delivered
\* again.
C31_PoisonDoesNotStall ==
    /\ \A m \in 1..MaxStream :
          [](/\ m <= Len(stream)
             /\ ParseOk(stream[m])
             /\ \E p \in parseFailedOn : p < m
             => <>(m \in acked))
    /\ [][\A p \in parseFailedOn : cur' = p => cur = p]_vars

\* The part that holds: a malformed message is delivered once
PoisonNotRedelivered ==
    [][\A p \in parseFailedOn : cur' = p => cur = p]_vars

\* The consumer is started and calculator_loop never returns
KeepsRunning == <>(pc # "down") /\ [](lastExit = "none")

\* Every well-formed message published so far has its opportunities stored
\* and is acknowledged, and nothing is pending
AllHandled ==
    /\ \A m \in 1..Len(stream) :
          ParseOk(stream[m]) => m \in acked /\ AllRowsPresent(m)
    /\ pending = {}

\* C34: if the consumer keeps running and neither the Store nor the Stream
\* fails, every well-formed message published is eventually read, has its
\* profitable opportunities stored, and is acknowledged, and the pending
\* set is eventually empty once publishing has stopped.  Acknowledgments
\* and rows are never taken back and publishing stops when the stream is
\* full, so "each one eventually" is "eventually all, for good".
C34_LivenessWithoutFailures == KeepsRunning => <>[]AllHandled

\* Two well-formed messages, the first with opportunities, both handled
\* by a consumer that is still running
C34_Witness ==
    /\ Len(stream) = 2
    /\ \A m \in 1..2 : ParseOk(stream[m])
    /\ OppsOf(1) # <<>>
    /\ AllRowsPresent(1)
    /\ acked = {1, 2}
    /\ pending = {}
    /\ pc = "read"
    /\ lastExit = "none"

\* C32: the consumer loop retries for ever: it never ends on its own, an
\* error of the Store or of the Stream during an iteration does not end it,
\* and only a process-level interrupt stops it.
C32_OnlyInterruptStops ==
    pc = "down" /\ runs > 0 => lastExit \in {"interrupt", "startup", "killed"}

\* The part that holds: without an exception the loop never ends on its own
LoopEndsOnlyByException ==
    [][pc # "down" /\ pc' = "down" => lastExit' # "none"]_vars

\* C33: publish/parse round trip: for every timestamp and every price
\* mapping whose market codes differ from "timestamp", the message that
\* publish_to_redis builds, parsed by calculate_and_store_spreads_from_redis,
\* gives the same market set, the same price for every market and the same
\* timestamp.
C33_PublishParseRoundTrip ==
    Returned("publish_to_redis") =>
        LET timestamp == call.args[1]
            prices    == call.args[2]
        IN  "timestamp" \notin KeySet(prices) =>
                \A k \in 1..Len(stream) :
                    /\ ParseOk(stream[k])
                    /\ KeySet(ParsePrices(stream[k])) = KeySet(prices)
                    /\ Len(ParsePrices(stream[k])) = Len(prices)
                    /\ \A market \in KeySet(prices) :
                          Item(ParsePrices(stream[k]), market)
                              = <<Item(prices, market), timestamp>>

\* 62.51, 60.0 and 62.5 at instant 2 go out as "62.51", "60.0" and "62.5"
\* under "2024-01-01T00:00:02" and come back as they were
C33_Witness ==
    /\ Returned("publish_to_redis")
    /\ call.args = <<2, << <<"FR", 6251>>, <<"DE", 6000>>, <<"NL", 6250>> >> >>
    /\ stream[1] = << <<"timestamp", "2024-01-01T00:00:02">>,
                      <<"FR", "62.51">>, <<"DE", "60.0">>, <<"NL", "62.5">> >>
    /\ ParsePrices(stream[1]) = << <<"FR", <<6251, 2>> >>, <<"DE", <<6000, 2>> >>,
                                   <<"NL", <<6250, 2>> >> >>

\* C35: a message that fails to parse leaves the Store unchanged: the
\* timestamp and every price are parsed before any calculation or insert,
\* so a message with a missing or invalid timestamp or with a non-numeric
\* price has no row written, even when its other markets would form
\* profitable pairs.
C35_ParseFailureWritesNothing ==
    \A m \in parseFailedOn : RowsOf(m) = {}

\* DE 60.00 and NL 80.00 next to FR "abc": the pair DE-NL would be worth
\* storing, and the parse has failed with the Store left empty
C35_Witness ==
    /\ parseFailedOn = {1}
    /\ Item(stream[1], "FR") = JunkStr
    /\ Decimal(Item(stream[1], "NL")) - Decimal(Item(stream[1], "DE")) > 150
    /\ pc = "down"
    /\ lastExit = "error"
    /\ spreads = <<>>

\* The rows of message m in a spreads table, in insertion order
RowSeqOf(table, m) ==
    LET mine == SelectSeq(table, LAMBDA r : r.src = m)
    IN  [i \in 1..Len(mine) |-> mine[i].row]

IsPrefix(a, b) == Len(a) <= Len(b) /\ a = SubSeq(b, 1, Len(a))

\* C36: the opportunities of one message are stored by independent INSERTs
\* with no transaction: when the k-th INSERT fails, exactly the first k-1
\* rows of the message are in the Store, the others are not written, and
\* the message is not acknowledged (k is written + 1).
C36_KthInsertFailureKeepsFirstRows ==
    /\ [][InsertFails =>
             /\ RowSeqOf(spreads', cur) = SubSeq(opps, 1, written)
             /\ written < Len(opps)
             /\ opps = OppsOf(cur)
             /\ cur \notin acked'
             /\ cur \in pending'
             /\ pc' = "down"]_vars
    /\ [](\A m \in crashedOn :
             /\ ParseOk(stream[m]) => IsPrefix(RowSeqOf(spreads, m), OppsOf(m))
             /\ m \notin acked
             /\ m \in pending)

\* The second of three INSERTs failed: one row of the message is stored,
\* two are not, and the message is pending, unacknowledged
C36_Witness ==
    /\ pc = "down"
    /\ lastExit = "error"
    /\ \E m \in crashedOn :
          /\ Len(OppsOf(m)) = 3
          /\ RowSeqOf(spreads, m) = SubSeq(OppsOf(m), 1, 1)
          /\ m \in pending
          /\ m \notin acked

\* C37: any exception of the consumer-group creation at startup, not only
\* the duplicate-group error, is caught and taken for "group already
\* exists": whatever the outcome of the creation the consumer goes on to
\* the read loop, and no error of the creation ends the process (what can
\* end it there is an interrupt or a kill of the process).
C37_GroupCreateErrorsSwallowed ==
    [][pc = "group" /\ pc' # "group" =>
          \/ /\ pc' = "read"
             /\ lastExit' = "none"
             /\ dbOpen' /\ redisOpen'
          \/ /\ pc' = "down"
             /\ lastExit' \in {"startup", "killed"}]_vars

\* The creation failed without creating the group, and the consumer is in
\* the read loop all the same
C37_Witness ==
    /\ pc = "read"
    /\ ~groupExists
    /\ failures = 1
    /\ lastExit = "none"
    /\ Len(stream) = 1

\* C38: once a message has been acknowledged it is never processed again:
\* over any number of iterations and restarts the consumer never handles an
\* acknowledged message, no row is written for a message after its
\* acknowledgment, and each message is acknowledged at most once.
C38_AckedNeverProcessedAgain ==
    /\ [](InMessage => cur \notin acked)
    /\ [][\A m \in acked :
             RowSeqOf(spreads', m) = RowSeqOf(spreads, m)]_vars
    /\ [][acked' # acked =>
             /\ cur \notin acked
             /\ acked' = acked \cup {cur}]_vars

\* Message 1 was stored and acknowledged in the first run; the process was
\* started again and is handling message 2
C38_Witness ==
    /\ acked = {1}
    /\ RowsOf(1) # {}
    /\ runs = 2
    /\ cur = 2
    /\ pc = "handle"

\* The rows of the prices table for a market at an instant
PriceRows(market, t) ==
    {j \in 1..Len(pricesTable) :
        pricesTable[j].market = market /\ pricesTable[j].timestamp = t}

\* The instants of the messages in the stream
PublishedInstants ==
    {fromisoformat(Item(stream[k], "timestamp")) : k \in 1..Len(stream)}

\* C39: in every ingestion iteration the prices are written to the prices
\* table, one row per market, before the snapshot is published: every
\* message in the stream has one row in the prices table for each of its
\* markets, with the same timestamp, the stream grows only when all the
\* markets of the iteration are written, and the snapshot of an iteration
\* whose Store write failed is not published.
C39_PricesWrittenBeforePublish ==
    /\ [](\A k \in 1..Len(stream) :
             \A i \in 1..Len(stream[k]) :
                 IsMarketField(stream[k][i]) =>
                     Cardinality(PriceRows(
                         stream[k][i][1],
                         fromisoformat(Item(stream[k], "timestamp")))) = 1)
    /\ [](ingest.failed \cap PublishedInstants = {})
    /\ [][stream' # stream =>
             /\ ingest.written = Len(ingest.prices)
             /\ \A i \in 1..Len(ingest.prices) :
                   PriceRows(ingest.prices[i][1], ingest.timestamp) # {}]_vars

\* The first iteration wrote its five markets and published; the second
\* wrote two markets, then the Store failed: seven rows, one message
C39_Witness ==
    /\ Len(stream) = 1
    /\ Len(stream[1]) = 6
    /\ Len(pricesTable) = 7
    /\ ingest.failed = {2}
    /\ ingest.pc = "down"
    /\ PublishedInstants = {1}

====
